---- MODULE Spec2Model ----
(***************************************************************************)
(* State-consistency engine of the LocalLoop backend: the store            *)
(* (model/in_memmory_db.py), the action interpreter and confirm transition *)
(* (domain/actions.py) and the HTTP handlers that mutate the store         *)
(* (api/api.py).                                                           *)
(*                                                                         *)
(* Python object identity is modelled explicitly.  Item, borrowing and     *)
(* impact dicts live in heaps (itemObj, borObj, impactObj) and the lists   *)
(* of a store hold references into them.  domain/actions.py and api/api.py *)
(* bind the name BUILDING_STATE once, at import, to the dict built at      *)
(* process start; persist() rebinds only the global of in_memmory_db to    *)
(* the dict returned by _cleanup_state, whose "items" and "borrowings" are *)
(* new lists holding the surviving objects.                                *)
(*                                                                         *)
(* Ids: the number n stands for "item-n" / "borrowing-n", 0 for a missing  *)
(* id; "" stands for a missing string.  co2_saved_kg and waste_avoided_kg  *)
(* are counted in half kilograms (HalfKg).                                 *)
(***************************************************************************)
EXTENDS Integers, Sequences, FiniteSets, TLC

\* ------------------------------------------------------------- bounds
MaxItems == 2
MaxBorrowings == 2
MaxCalls == 3
MaxRawItems == 1
MaxRawBorrowings == 2
MaxIntents == 3

\* ---------------------------------------------------------- constants
CO2_PER_BORROW_KG == 2
WASTE_PER_BORROW_KG == 1
\* IMPACT["CO2_PER_EVENT_ITEM_KG"] = 1.5 and IMPACT["WASTE_PER_EVENT_ITEM_KG"] = 0.5,
\* in half kilograms
CO2_PER_EVENT_ITEM_HALF_KG == 3
WASTE_PER_EVENT_ITEM_HALF_KG == 1
DISPOSAL_INTENT_THRESHOLD == 2
ESTIMATED_ITEMS_PER_INTENT == 3

_ITEM_STATUSES == {"available", "unavailable", "archived", "borrowed", "requested"}
_BORROW_STATUSES == {"waiting_for_confirm", "active", "returned", "cancelled", "return_requested"}

VARIABLES
    BUILDING_STATE,     \* the dict bound in domain/actions.py and api/api.py
    db_BUILDING_STATE,  \* the global BUILDING_STATE of model/in_memmory_db.py
    rebound,            \* persist() has rebound the global of in_memmory_db
    itemObj,            \* heap of item dicts
    borObj,             \* heap of borrowing dicts
    impactObj,          \* heap of impact dicts
    disk,               \* content of model/db.json
    loaded,             \* the module in_memmory_db has been imported
    reply,              \* what the last call returned or raised
    calls,              \* number of calls handled since process start
    shared              \* the keys whose list is one object in both dicts

vars == <<BUILDING_STATE, db_BUILDING_STATE, rebound, itemObj, borObj, impactObj, disk, loaded, reply, calls, shared>>

\* ------------------------------------------------------------ helpers
Range(s) == {s[i] : i \in DOMAIN s}

Min(S) == CHOOSE x \in S : \A y \in S : x <= y

\* next(x for x in refs if Test(x), None); 0 stands for None
First(refs, Test(_)) ==
    LET idx == {i \in DOMAIN refs : Test(refs[i])}
    IN  IF idx = {} THEN 0 ELSE refs[Min(idx)]

IdentitySeq(n) == [i \in 1..n |-> i]

HalfKg(kg) == kg + kg

\* JSON null, and a key that is absent (dict.get gives None for both)
Null == "null"

EmptyDict == [k \in {} |-> 0]

IMPACT_KEYS == {"co2_saved_kg", "waste_avoided_kg", "borrows_count", "events_count", "items_shared"}

ZeroImpact == [k \in IMPACT_KEYS |-> 0]

_DEFAULT_STATE ==
    [residents |-> <<>>, items |-> <<>>, borrowings |-> <<>>, impact |-> EmptyDict,
     events |-> <<>>, disposal_intents |-> <<>>]

\* The heap as one value: what the handlers and _cleanup_state read and mutate.
Heap == [item |-> itemObj, bor |-> borObj, imp |-> impactObj]

\* ------------------------------------------------- reconciliation pass
ItemKept(it, resident_ids) ==
    /\ it.id # 0
    /\ it.owner_id # ""
    /\ it.owner_id \in resident_ids

NormalStatus(status) ==
    IF status \in _ITEM_STATUSES THEN status ELSE "available"

BorrowKept(b, item_ids, resident_ids) ==
    /\ b.id # 0
    /\ b.item_id # 0 /\ b.item_id \in item_ids
    /\ b.lender_id # "" /\ b.lender_id \in resident_ids
    /\ b.borrower_id # "" /\ b.borrower_id \in resident_ids
    /\ b.status \in _BORROW_STATUSES

\* DerivedStatus with the reset of an unsupported 'requested' gone wrong:
\* it becomes 'borrowed' instead of 'available'
DerivedStatus_RequestedToBorrowed(status, statuses) ==
    IF "active" \in statuses THEN "borrowed"
    ELSE IF "waiting_for_confirm" \in statuses THEN "requested"
    ELSE IF "return_requested" \in statuses THEN "borrowed"
    ELSE IF status = "requested" THEN "borrowed"
    ELSE IF status = "borrowed" THEN "available"
    ELSE IF status \notin _ITEM_STATUSES THEN "available"
    ELSE status

\* DerivedStatus that also resets an owner-set 'archived' when no borrowing
\* decides the status
DerivedStatus_ArchivedReset(status, statuses) ==
    IF "active" \in statuses THEN "borrowed"
    ELSE IF "waiting_for_confirm" \in statuses THEN "requested"
    ELSE IF "return_requested" \in statuses THEN "borrowed"
    ELSE IF status \in {"borrowed", "requested", "archived"} THEN "available"
    ELSE IF status \notin _ITEM_STATUSES THEN "available"
    ELSE status

DerivedStatus(status, statuses) ==
    IF "active" \in statuses THEN "borrowed"
    ELSE IF "waiting_for_confirm" \in statuses THEN "requested"
    ELSE IF "return_requested" \in statuses THEN "borrowed"
    ELSE IF status \in {"borrowed", "requested"} THEN "available"
    ELSE IF status \notin _ITEM_STATUSES THEN "available"
    ELSE status

\* A fresh {} replaces an empty impact dict ("state.get('impact', {}) or {}");
\* every fresh empty dict is reference 2 of impactObj, which stays empty.
FreshImpact == 2

\* the list emptied: nothing of it is passed on
OrEmptyList_Emptied(value) == <<>>

\* 'state.get(key, []) or []': the list itself, a new empty list for an empty one
OrEmptyList(value) == IF value = <<>> THEN <<>> ELSE value

\* _cleanup_state(state): the cleaned dict and the item heap after the
\* in-place status writes.  Only the lists are new; the dicts are shared.
_cleanup_state(state, heap) ==
    LET resident_ids == {r \in Range(state.residents) : r # ""}
        items == SelectSeq(state.items, LAMBDA r : ItemKept(heap.item[r], resident_ids))
        item_ids == {heap.item[r].id : r \in Range(items)}
        borrows == SelectSeq(state.borrowings,
                             LAMBDA b : BorrowKept(heap.bor[b], item_ids, resident_ids))
        borrow_by_item(iid) == {heap.bor[b].status : b \in {x \in Range(borrows) : heap.bor[x].item_id = iid}}
    IN  [cleaned |-> [residents  |-> OrEmptyList(state.residents),
                      items      |-> items,
                      borrowings |-> borrows,
                      impact     |-> IF DOMAIN heap.imp[state.impact] # {}
                                     THEN state.impact ELSE FreshImpact,
                      events     |-> OrEmptyList(state.events),
                      disposal_intents |-> OrEmptyList(state.disposal_intents)],
         item |-> [r \in DOMAIN heap.item |->
                      IF r \in Range(items)
                      THEN [heap.item[r] EXCEPT !.status =
                               DerivedStatus(NormalStatus(heap.item[r].status),
                                             borrow_by_item(heap.item[r].id))]
                      ELSE heap.item[r]]]

\* json.dump of a store: the values, without object identity
Snapshot(state, heap) ==
    [residents  |-> state.residents,
     items      |-> [i \in DOMAIN state.items |-> heap.item[state.items[i]]],
     borrowings |-> [i \in DOMAIN state.borrowings |-> heap.bor[state.borrowings[i]]],
     impact     |-> heap.imp[state.impact],
     events     |-> state.events,
     disposal_intents |-> state.disposal_intents]

\* json.load of a file: one new object per record
Objects(raw) ==
    [state |-> [residents  |-> raw.residents,
                items      |-> IdentitySeq(Len(raw.items)),
                borrowings |-> IdentitySeq(Len(raw.borrowings)),
                impact     |-> 1,
                events     |-> raw.events,
                disposal_intents |-> raw.disposal_intents],
     heap  |-> [item |-> raw.items, bor |-> raw.borrowings, imp |-> <<raw.impact, EmptyDict>>]]

\* BUILDING_STATE = _cleanup_state(_read_raw_state()), at import: the dict and
\* the heap it leaves.  The dict whose counters the handlers update is
\* reference 1, whether or not it is empty.
Import(raw) ==
    LET o == Objects(raw)
        c == _cleanup_state(o.state, o.heap)
    IN  [BUILDING_STATE |-> [c.cleaned EXCEPT !.impact = o.state.impact],
         itemObj        |-> c.item,
         borObj         |-> o.heap.bor,
         impactObj      |-> o.heap.imp]

\* "events" and "disposal_intents" are copied by "state.get(key, []) or []": the
\* cleaned dict holds the very list of the input when that list is not empty, a
\* new empty list otherwise.  Appends to a list both dicts hold show in both.
LIST_KEYS == {"events", "disposal_intents"}

\* the db module's dict db as it stands when the handlers' dict is st and the
\* lists of the keys sh are held by both
Synced(db, st, sh) ==
    [db EXCEPT !.events = IF "events" \in sh THEN st.events ELSE @,
               !.disposal_intents = IF "disposal_intents" \in sh THEN st.disposal_intents ELSE @]

\* persist() when the handlers' dict is st, the heap is heap, the global of
\* in_memmory_db is db (used once persist() has rebound it; until then the
\* global is the handlers' dict itself) and the lists of the keys sh are held
\* by both dicts.
persist_as(st, heap, db, sh) ==
    LET src == IF rebound THEN db ELSE st
        c == _cleanup_state(src, heap)
        after == [heap EXCEPT !.item = c.item]
    IN  /\ db_BUILDING_STATE' = c.cleaned
        /\ rebound' = TRUE
        /\ BUILDING_STATE' = st
        /\ itemObj' = after.item
        /\ borObj' = after.bor
        /\ impactObj' = after.imp
        /\ disk' = Snapshot(c.cleaned, after)
        /\ shared' = {k \in (IF rebound THEN sh ELSE LIST_KEYS) : src[k] # <<>>}
        /\ UNCHANGED loaded

\* persist(), called with the store and heap as the handler left them (st, heap).
\* persist left out: nothing is reconciled, rebound or written
persist_Skipped(st, heap) ==
    UNCHANGED <<BUILDING_STATE, db_BUILDING_STATE, rebound, itemObj, borObj, impactObj,
                disk, loaded, shared>>

persist(st, heap) ==
    persist_as(st, heap, Synced(db_BUILDING_STATE, st, shared), shared)

\* the call ends: what it returns (or raises) goes to the caller
Return(r) ==
    /\ calls' = calls + 1
    /\ reply' = r

\* Rejected with a write-out: the call reconciles and saves before it raises
Rejected_AfterPersist(result) ==
    /\ persist(BUILDING_STATE, Heap)
    /\ Return([result |-> result, id |-> 0])

\* a call that raises before it mutates anything
Rejected(result) ==
    /\ Return([result |-> result, id |-> 0])
    /\ UNCHANGED <<BUILDING_STATE, db_BUILDING_STATE, rebound, itemObj, borObj, impactObj, disk, loaded, shared>>

\* ------------------------------------------------------------ lookups
_find_item(st, heap, item_id) ==
    First(st.items, LAMBDA r : heap.item[r].id = item_id)

_find_borrowing(st, heap, borrowing_id) ==
    First(st.borrowings, LAMBDA b : heap.bor[b].id = borrowing_id)

\* ------------------------------------------------------------- inputs
Users == {"peter", "anna"}
SeedResidents == <<"peter", "anna">>
ItemIdInputs == 0..MaxItems
BorrowingIdInputs == 0..MaxBorrowings
RegisterStatuses == {"", "borrowed"}
UpdateStatuses == {"", "available", "archived", "unavailable", "borrowed"}

\* metadata of a create_borrow action <<item_id, lender_id, suggested_start,
\* suggested_due>>: complete, or with one of the four fields missing
CreateBorrowInputs ==
    {<<i, l, TRUE, TRUE>> : i \in ItemIdInputs \ {0}, l \in Users}
    \cup {<<0, "peter", TRUE, TRUE>>, <<1, "", TRUE, TRUE>>,
          <<1, "peter", FALSE, TRUE>>, <<1, "peter", TRUE, FALSE>>}

\* metadata of a register_item action <<name, status, owner_id>>: with a name,
\* or without one
RegisterInputs ==
    {<<TRUE, s, o>> : s \in RegisterStatuses, o \in Users \cup {""}}
    \cup {<<FALSE, "", "">>}

None == [result |-> "None", id |-> 0]

Borrowing(id, item_id, lender_id, borrower_id, status) ==
    [id |-> id, item_id |-> item_id, lender_id |-> lender_id,
     borrower_id |-> borrower_id, status |-> status]

\* Item without the caller's status: every new item is 'available'
Item_AlwaysAvailable(id, owner_id, status) ==
    [id |-> id, owner_id |-> owner_id, status |-> "available"]

Item(id, owner_id, status) == [id |-> id, owner_id |-> owner_id, status |-> status]

\* AddAll that starts the counters over instead of adding to them
AddAll_StartOver(imp, adds) == [k \in DOMAIN imp |-> 0]

\* BUILDING_STATE["impact"][key] += n, for each <<key, n>> of adds in turn; a
\* missing key raises KeyError and leaves the later counters as they were
RECURSIVE AddAll(_, _)
AddAll(imp, adds) ==
    IF adds = <<>> \/ Head(adds)[1] \notin DOMAIN imp THEN imp
    ELSE AddAll([imp EXCEPT ![Head(adds)[1]] = @ + Head(adds)[2]], Tail(adds))

\* KeyError without its test: += on a missing key raises nothing
KeyError_Never(imp, adds) == FALSE

KeyError(imp, adds) == \E i \in DOMAIN adds : adds[i][1] \notin DOMAIN imp

\* ------------------------------------------------- POST /api/borrowings/request
\* Requestable without its test: an item is requestable in any status
Requestable_AnyStatus(status) == TRUE

\* "Item must be in a requestable state"
Requestable(status) == status \in {"available", "unavailable"}

request_borrowing(user_id, item_id) ==
    /\ calls < MaxCalls
    /\ LET st == BUILDING_STATE
           item == First(st.items, LAMBDA r : itemObj[r].id = item_id)
           lender_id == itemObj[item].owner_id
           blocking == First(st.borrowings, LAMBDA b :
                           /\ borObj[b].item_id = item_id
                           /\ borObj[b].status \in {"active", "waiting_for_confirm"})
           dup_same_user == First(st.borrowings, LAMBDA b :
                           /\ borObj[b].item_id = item_id
                           /\ borObj[b].borrower_id = user_id
                           /\ borObj[b].status = "waiting_for_confirm")
           borrowing_id == Len(st.borrowings) + 1
           new == Len(borObj) + 1
       IN  IF user_id \notin Range(st.residents) THEN Rejected("404")
           ELSE IF item = 0 THEN Rejected("404")
           ELSE IF user_id = lender_id THEN Rejected("400")
           ELSE IF blocking # 0 THEN Rejected("400")
           ELSE IF dup_same_user # 0 THEN Rejected("400")
           ELSE IF ~Requestable(itemObj[item].status) THEN Rejected("400")
           ELSE /\ Len(borObj) < MaxBorrowings
                /\ persist([st EXCEPT !.borrowings = Append(@, new)],
                           [Heap EXCEPT !.bor = Append(@, Borrowing(borrowing_id, item_id, lender_id,
                                                                    user_id, "waiting_for_confirm")),
                                        !.item[item].status = "requested"])
                /\ Return([result |-> "ok", id |-> borrowing_id])

\* ------------------------------------------------- apply_action
\* "persist(); return None": the neutral result of the interpreter
NoOp ==
    /\ Return(None)
    /\ persist(BUILDING_STATE, Heap)

\* "if not action": a null (or empty) action
apply_null ==
    /\ calls < MaxCalls
    /\ NoOp

\* an action_type that matches no branch: the function falls off its end
apply_unknown ==
    /\ calls < MaxCalls
    /\ Return(None)
    /\ UNCHANGED <<BUILDING_STATE, db_BUILDING_STATE, rebound, itemObj, borObj, impactObj, disk, loaded, shared>>

create_borrow(user_id, item_id, lender_id, start, due) ==
    /\ calls < MaxCalls
    /\ LET st == BUILDING_STATE
           item == _find_item(st, Heap, item_id)
           borrowing_id == Len(st.borrowings) + 1
           new == Len(borObj) + 1
       IN  IF item_id = 0 \/ lender_id = "" \/ ~start \/ ~due
           THEN NoOp
           ELSE IF item = 0 \/ itemObj[item].status # "available"
           THEN NoOp
           ELSE /\ Len(borObj) < MaxBorrowings
                /\ persist([st EXCEPT !.borrowings = Append(@, new)],
                           [Heap EXCEPT !.bor = Append(@, Borrowing(borrowing_id, item_id, lender_id,
                                                                    user_id, "waiting_for_confirm"))])
                /\ Return([result |-> "borrow_waiting_confirmation", id |-> borrowing_id])

mark_returned(borrowing_id) ==
    /\ calls < MaxCalls
    /\ LET st == BUILDING_STATE
           borrowing == _find_borrowing(st, Heap, borrowing_id)
           item == _find_item(st, Heap, borObj[borrowing].item_id)
           returned == [Heap EXCEPT !.bor[borrowing].status = "returned"]
       IN  IF borrowing_id = 0 THEN NoOp
           ELSE IF borrowing = 0 THEN NoOp
           ELSE IF borObj[borrowing].status = "returned"
           THEN persist(st, Heap) /\ Return([result |-> "already_returned", id |-> borrowing_id])
           ELSE /\ persist(st, IF item = 0 THEN returned
                               ELSE [returned EXCEPT !.item[item].status = "available"])
                /\ Return([result |-> "marked_returned", id |-> borrowing_id])

register_item(user_id, name, status, owner) ==
    /\ calls < MaxCalls
    /\ LET st == BUILDING_STATE
           item_id == Len(st.items) + 1
           new == Len(itemObj) + 1
           imp == impactObj[st.impact]
           items_shared == IF "items_shared" \in DOMAIN imp THEN imp["items_shared"] ELSE 0
           counted == [k \in DOMAIN imp \cup {"items_shared"} |->
                          IF k = "items_shared" THEN items_shared + 1 ELSE imp[k]]
       IN  IF ~name THEN NoOp
           ELSE /\ Len(itemObj) < MaxItems
                /\ persist([st EXCEPT !.items = Append(@, new)],
                           [Heap EXCEPT !.item = Append(@, Item(item_id,
                                                                IF owner # "" THEN owner ELSE user_id,
                                                                IF status # "" THEN status ELSE "available")),
                                        !.imp[st.impact] = counted])
                /\ Return([result |-> "item_registered", id |-> item_id])

\* ------------------------------------------------- register_disposal_intent
Tags == {"books", "toys"}

\* a disposal entry of the store; tags as a set ("tag in it.get('tags')")
Intent(id, tags, owner_id) == [id |-> id, tags |-> tags, owner_id |-> owner_id]

\* the event _create_event builds; impact in half kilograms
\* Event with one id for every event: the length of the log is not used
Event_SameId(id, category, intents_count, co2, waste) ==
    [id |-> 1, category |-> category, intents_count |-> intents_count,
     co2_saved_kg |-> co2, waste_avoided_kg |-> waste]

Event(id, category, intents_count, co2, waste) ==
    [id |-> id, category |-> category, intents_count |-> intents_count,
     co2_saved_kg |-> co2, waste_avoided_kg |-> waste]

\* disposal_store after one entry per element of batch has been appended; an
\* element is <<tags, owner_id>>, owner_id "" when it names no owner
RECURSIVE CreateIntents(_, _, _)
CreateIntents(disposal_store, batch, user_id) ==
    IF batch = <<>> THEN disposal_store
    ELSE LET it == Head(batch)
             owner == IF it.owner_id # "" THEN it.owner_id ELSE user_id
             disp_id == Len(disposal_store) + 1
         IN  CreateIntents(Append(disposal_store, Intent(disp_id, it.tags, owner)),
                           Tail(batch), user_id)

\* ThresholdReached with a strict test: the count has to exceed the threshold
ThresholdReached_Exceeded(count) == count > DISPOSAL_INTENT_THRESHOLD

\* "if count >= constants.DISPOSAL_INTENT_THRESHOLD"
ThresholdReached(count) == count >= DISPOSAL_INTENT_THRESHOLD

\* "for tag in tags_to_check", the tags taken in the order given.  acc holds the
\* disposal store, the event log and the impact dict; cut: the handlers' dict
\* has been given a new, filtered list; raised: _create_event raised KeyError
\* (after it appended the event), which ends the action.
RECURSIVE CheckTags(_, _)
CheckTags(acc, order) ==
    IF order = <<>> \/ acc.raised THEN acc
    ELSE LET tag == Head(order)
             count == Cardinality({i \in DOMAIN acc.store : tag \in acc.store[i].tags})
             estimated_items == ESTIMATED_ITEMS_PER_INTENT * count
             co2 == CO2_PER_EVENT_ITEM_HALF_KG * estimated_items
             waste == WASTE_PER_EVENT_ITEM_HALF_KG * estimated_items
             adds == << <<"co2_saved_kg", co2>>, <<"waste_avoided_kg", waste>>,
                        <<"events_count", 1>> >>
             ev == Event(Len(acc.events) + 1, tag, count, co2, waste)
             emitted == [acc EXCEPT !.events = Append(@, ev), !.imp = AddAll(@, adds)]
         IN  IF ~ThresholdReached(count) THEN CheckTags(acc, Tail(order))
             ELSE IF KeyError(acc.imp, adds) THEN [emitted EXCEPT !.raised = TRUE]
             ELSE CheckTags([emitted EXCEPT
                                !.store = SelectSeq(@, LAMBDA it : tag \notin it.tags),
                                !.cut = TRUE],
                            Tail(order))

\* metadata.items is items (elements <<tags, owner_id>>), metadata.categories is
\* categories; order is the order in which the set tags_to_check is iterated
register_disposal_intent(user_id, items, categories, order) ==
    /\ calls < MaxCalls
    /\ LET st == BUILDING_STATE
           batch == items \o [i \in DOMAIN categories |->
                                 [tags |-> {categories[i]}, owner_id |-> ""]]
           appended == CreateIntents(st.disposal_intents, batch, user_id)
           created_items == SubSeq(appended, Len(st.disposal_intents) + 1, Len(appended))
           tags_to_check == UNION {created_items[i].tags : i \in DOMAIN created_items}
           done == CheckTags([store |-> appended, events |-> st.events,
                              imp |-> impactObj[st.impact], cut |-> FALSE, raised |-> FALSE],
                             order)
           created_events == SubSeq(done.events, Len(st.events) + 1, Len(done.events))
           after == [st EXCEPT !.disposal_intents = done.store, !.events = done.events]
           heap == [Heap EXCEPT !.imp[st.impact] = done.imp]
           \* the db module's dict keeps the list the entries were appended to
           db == [Synced(db_BUILDING_STATE, after, shared) EXCEPT
                     !.disposal_intents = IF "disposal_intents" \in shared THEN appended ELSE @]
           sh == IF done.cut THEN shared \ {"disposal_intents"} ELSE shared
       IN  IF items = <<>> /\ categories = <<>> THEN NoOp
           ELSE /\ Range(order) = tags_to_check
                /\ Len(order) = Cardinality(tags_to_check)
                /\ Len(appended) <= MaxIntents
                /\ IF done.raised
                   THEN /\ BUILDING_STATE' = after
                        /\ db_BUILDING_STATE' = IF rebound THEN db ELSE after
                        /\ shared' = IF rebound THEN sh ELSE shared
                        /\ impactObj' = heap.imp
                        /\ Return([result |-> "KeyError", id |-> 0])
                        /\ UNCHANGED <<rebound, itemObj, borObj, disk, loaded>>
                   ELSE /\ persist_as(after, heap, db, sh)
                        /\ Return([result |-> "disposal_registered", id |-> 0,
                                   created_items |-> created_items,
                                   created_events |-> created_events])

\* ------------------------------------------------- confirm_borrowing
\* the transition of domain/actions.py; result "ValueError" when it raises one,
\* "KeyError" when a counter is missing from the impact dict
\* NotWaiting without its test: a borrowing is confirmed in any status
NotWaiting_NeverRaises(status) == FALSE

\* "Borrowing is not in waiting_for_confirm state"
NotWaiting(status) == status # "waiting_for_confirm"

confirm_borrowing(owner_id, borrowing_id) ==
    /\ calls < MaxCalls
    /\ LET st == BUILDING_STATE
           borrowing == _find_borrowing(st, Heap, borrowing_id)
           item == _find_item(st, Heap, borObj[borrowing].item_id)
           active == [Heap EXCEPT !.bor[borrowing].status = "active"]
           marked == IF item = 0 THEN active ELSE [active EXCEPT !.item[item].status = "borrowed"]
           adds == << <<"borrows_count", 1>>,
                      <<"co2_saved_kg", HalfKg(CO2_PER_BORROW_KG)>>,
                      <<"waste_avoided_kg", HalfKg(WASTE_PER_BORROW_KG)>> >>
           counted == [marked EXCEPT !.imp[st.impact] = AddAll(@, adds)]
       IN  IF borrowing = 0 THEN Rejected("ValueError")
           ELSE IF borObj[borrowing].lender_id # owner_id THEN Rejected("ValueError")
           ELSE IF NotWaiting(borObj[borrowing].status) THEN Rejected("ValueError")
           ELSE IF KeyError(impactObj[st.impact], adds)
           THEN /\ itemObj' = counted.item
                /\ borObj' = counted.bor
                /\ impactObj' = counted.imp
                /\ Return([result |-> "KeyError", id |-> 0])
                /\ UNCHANGED <<BUILDING_STATE, db_BUILDING_STATE, rebound, disk, loaded, shared>>
           ELSE /\ persist(st, counted)
                /\ Return([result |-> "ok", id |-> borrowing_id])

\* POST /api/borrowings/confirm: a ValueError becomes a 400, anything else a 500
confirm_borrowing_endpoint(owner_id, borrowing_id) ==
    confirm_borrowing(owner_id, borrowing_id)

\* ------------------------------------------------- POST /api/borrowings/return
return_borrowing(borrowing_id) ==
    /\ calls < MaxCalls
    /\ LET st == BUILDING_STATE
           b == First(st.borrowings, LAMBDA x : borObj[x].id = borrowing_id)
           same == {r \in Range(st.items) : itemObj[r].id = borObj[b].item_id}
       IN  IF b = 0 THEN Rejected("404")
           ELSE /\ persist(st, [Heap EXCEPT
                       !.bor[b].status = "returned",
                       !.item = [r \in DOMAIN itemObj |->
                                    IF r \in same THEN [itemObj[r] EXCEPT !.status = "available"]
                                    ELSE itemObj[r]]])
                /\ Return([result |-> "ok", id |-> borrowing_id])

\* ------------------------------------------------- PATCH /api/items/{item_id}
\* str.strip() on the names a request carries
strip(name) ==
    CASE name = " " -> ""
      [] name = " saw" -> "saw"
      [] OTHER -> name

\* "apply updates (only provided fields)" up to the status: the item with the
\* name, description and tags of the request; Null is a field not provided
Updated(item, name, description, tags) ==
    LET named == IF name = Null \/ strip(name) = "" THEN item
                 ELSE [item EXCEPT !.name = strip(name)]
        described == IF description = Null THEN named
                     ELSE [named EXCEPT !.description = description]
    IN  IF tags = Null THEN described ELSE [described EXCEPT !.tags = tags]

\* status "" is a request without a status
update_item(item_id, user_id, name, description, tags, status) ==
    /\ calls < MaxCalls
    /\ LET st == BUILDING_STATE
           item == First(st.items, LAMBDA r : itemObj[r].id = item_id)
           active_borrow == First(st.borrowings, LAMBDA b :
                               /\ borObj[b].item_id = item_id
                               /\ borObj[b].status \in {"active", "waiting_for_confirm"})
           updated == [Heap EXCEPT !.item[item] = Updated(@, name, description, tags)]
       IN  IF item = 0 THEN Rejected("404")
           ELSE IF itemObj[item].owner_id # user_id THEN Rejected("403")
           ELSE IF active_borrow # 0 /\ status = "available" THEN Rejected("400")
           ELSE IF itemObj[item].status = "borrowed" THEN Rejected("400")
           ELSE IF status # "" /\ status \notin {"available", "archived", "unavailable"}
           THEN /\ Return([result |-> "400", id |-> 0])
                /\ itemObj' = updated.item
                /\ UNCHANGED <<BUILDING_STATE, db_BUILDING_STATE, rebound, borObj, impactObj,
                               disk, loaded, shared>>
           ELSE /\ persist(st, IF status = "" THEN updated
                               ELSE [updated EXCEPT !.item[item].status = status])
                /\ Return([result |-> "ok", id |-> item_id])

\* ------------------------------------------------- DELETE /api/items/{item_id}
\* Leftover without its test: no borrowing is kept, whatever item it is of
Leftover_None(borrowing, item_id) == FALSE

\* "b.get('item_id') != item_id": a borrowing that stays when item_id goes
Leftover(borrowing, item_id) == borrowing.item_id # item_id

delete_item(item_id, user_id) ==
    /\ calls < MaxCalls
    /\ LET st == BUILDING_STATE
           item == First(st.items, LAMBDA r : itemObj[r].id = item_id)
           blocking_statuses == {"waiting_for_confirm", "active", "borrowed"}
           blocking == {b \in Range(st.borrowings) :
                           /\ borObj[b].item_id = item_id
                           /\ borObj[b].status \in blocking_statuses}
       IN  IF item = 0 THEN Rejected("404")
           ELSE IF itemObj[item].owner_id # user_id THEN Rejected("403")
           ELSE IF blocking # {} THEN Rejected("400")
           ELSE /\ persist([st EXCEPT
                       !.items = SelectSeq(@, LAMBDA r : itemObj[r].id # item_id),
                       !.borrowings = SelectSeq(@, LAMBDA b : Leftover(borObj[b], item_id))],
                       Heap)
                /\ Return([result |-> "ok", id |-> item_id])

\* ------------------------------------------------- the process
\* db.json files the process is started on
SeedItems == {<<>>, <<Item(1, "peter", "available")>>}
SeedBorrowings == {<<>>} \cup {<<Borrowing(1, 1, "peter", "anna", s)>> : s \in {"return_requested", "cancelled"}}
SeedFiles ==
    {_DEFAULT_STATE} \cup
    {[residents |-> SeedResidents, items |-> i, borrowings |-> b, impact |-> ZeroImpact,
      events |-> <<>>, disposal_intents |-> <<>>] :
        i \in SeedItems, b \in SeedBorrowings}

Booted == [result |-> "boot", id |-> 0]

\* the process after "import model.in_memmory_db", started on db.json = raw
Init ==
    \E raw \in SeedFiles :
        LET m == Import(raw)
        IN  /\ BUILDING_STATE = m.BUILDING_STATE
            /\ db_BUILDING_STATE = m.BUILDING_STATE
            /\ rebound = FALSE
            /\ itemObj = m.itemObj
            /\ borObj = m.borObj
            /\ impactObj = m.impactObj
            /\ disk = raw
            /\ loaded = TRUE
            /\ reply = Booted
            /\ calls = 0
            /\ shared = LIST_KEYS

Next ==
    \/ \E u \in Users, i \in ItemIdInputs : request_borrowing(u, i)
    \/ apply_null
    \/ apply_unknown
    \/ \E u \in Users, m \in CreateBorrowInputs : create_borrow(u, m[1], m[2], m[3], m[4])
    \/ \E b \in BorrowingIdInputs : mark_returned(b)
    \/ \E u \in Users, m \in RegisterInputs : register_item(u, m[1], m[2], m[3])
    \/ \E u \in Users, b \in BorrowingIdInputs : confirm_borrowing_endpoint(u, b)
    \/ \E b \in BorrowingIdInputs : return_borrowing(b)
    \/ \E i \in ItemIdInputs, u \in Users, s \in UpdateStatuses : update_item(i, u, Null, Null, Null, s)
    \/ \E i \in ItemIdInputs, u \in Users : delete_item(i, u)

Spec == Init /\ [][Next]_vars

\* ------------------------------------------------- the action interpreter
\* metadata of a register_disposal_intent action: <<items, categories>>
DisposalInputs ==
    {<< <<>>, <<>> >>,
     << <<>>, <<"books">> >>,
     << <<[tags |-> {"books", "toys"}, owner_id |-> "anna"]>>, <<>> >>}

\* the orders in which a set of at most two tags can be iterated
TagOrders == {<<>>} \cup {<<t>> : t \in Tags} \cup {<<t, u>> : t \in Tags, u \in Tags}

\* apply_action alone: every branch of the interpreter
NextActions ==
    \/ apply_null
    \/ apply_unknown
    \/ \E u \in Users, m \in CreateBorrowInputs : create_borrow(u, m[1], m[2], m[3], m[4])
    \/ \E b \in BorrowingIdInputs : mark_returned(b)
    \/ \E u \in Users, m \in RegisterInputs : register_item(u, m[1], m[2], m[3])
    \/ \E u \in Users, m \in DisposalInputs, order \in TagOrders :
          register_disposal_intent(u, m[1], m[2], order)

SpecActions == Init /\ [][NextActions]_vars

\* ------------------------------------------------- three 'books' intents
\* the three users of the scenario, in the order in which they act
BooksUsers == <<"peter", "anna", "jan">>

\* one disposal intent tagged 'books': as a category, or as an item
BooksInputs ==
    {<< <<>>, <<"books">> >>, << <<[tags |-> {"books"}, owner_id |-> ""]>>, <<>> >>}

\* db.json before the scenario: no intent tagged 'books'; possibly an intent
\* with another tag and an event of an earlier collection
BooksFiles ==
    {[f EXCEPT !.disposal_intents = d, !.events = e] :
        f \in SeedFiles,
        d \in {<<>>, <<Intent(1, {"toys"}, "anna")>>},
        e \in {<<>>, <<Event(1, "toys", 2, 18, 6)>>}}

InitBooks ==
    \E raw \in BooksFiles :
        LET m == Import(raw)
        IN  /\ BUILDING_STATE = m.BUILDING_STATE
            /\ db_BUILDING_STATE = m.BUILDING_STATE
            /\ rebound = FALSE
            /\ itemObj = m.itemObj
            /\ borObj = m.borObj
            /\ impactObj = m.impactObj
            /\ disk = raw
            /\ loaded = TRUE
            /\ reply = Booted
            /\ calls = 0
            /\ shared = LIST_KEYS

\* the next user of the scenario registers one intent tagged 'books'
register_books ==
    /\ calls < Len(BooksUsers)
    /\ \E m \in BooksInputs :
          register_disposal_intent(BooksUsers[calls + 1], m[1], m[2], <<"books">>)

NextBooks == register_books

SpecBooks == InitBooks /\ [][NextBooks]_vars

\* ------------------------------------------------- POST /api/chat
\* run_localloop_brain's ownership guard without its overwrite: only a missing
\* owner_id is filled in
EnforcedOwner_FillOnly(user_id, owner) == IF owner = "" THEN user_id ELSE owner

\* run_localloop_brain's ownership guard: the owner_id it leaves in a metadata
\* dict (or in an entry of metadata.items) that came with owner ("": none)
EnforcedOwner(user_id, owner) ==
    IF owner = "" THEN user_id
    ELSE IF owner # user_id THEN user_id
    ELSE owner

\* the guard over metadata.items
EnforcedItems(user_id, items) ==
    [i \in DOMAIN items |-> [items[i] EXCEPT !.owner_id = EnforcedOwner(user_id, @)]]

\* metadata of a register_disposal_intent action as the model's text has it:
\* <<items, categories>>, an entry's owner_id missing, the user or another
ChatDisposalInputs ==
    {<< <<[tags |-> {"books"}, owner_id |-> o]>>, <<>> >> : o \in Users \cup {""}}
    \cup {<< <<[tags |-> {"books"}, owner_id |-> "peter"],
              [tags |-> {"toys"}, owner_id |-> "anna"]>>, <<"toys">> >>}

\* post_chat when the brain returns no action: apply_action is not called
post_chat_no_action ==
    /\ calls < MaxCalls
    /\ Return(None)
    /\ UNCHANGED <<BUILDING_STATE, db_BUILDING_STATE, rebound, itemObj, borObj, impactObj,
                   disk, loaded, shared>>

\* post_chat when the brain returns a register_item action; an exception of
\* apply_action becomes a 500
post_chat_register_item(user_id, name, status, owner) ==
    register_item(user_id, name, status, EnforcedOwner(user_id, owner))

\* post_chat when the brain returns a register_disposal_intent action
post_chat_register_disposal_intent(user_id, items, categories, order) ==
    register_disposal_intent(user_id, EnforcedItems(user_id, items), categories, order)

NextChat ==
    \/ post_chat_no_action
    \/ \E u \in Users, m \in RegisterInputs : post_chat_register_item(u, m[1], m[2], m[3])
    \/ \E u \in Users, m \in ChatDisposalInputs, order \in TagOrders :
          post_chat_register_disposal_intent(u, m[1], m[2], order)

SpecChat == Init /\ [][NextChat]_vars

\* ------------------------------------------------- the normalizer (ai.py)
\* The language model is an input: what it answers is drawn from the sets
\* below. Its text is a string over Chars: brackets, and "x" for any
\* character that is not JSON where it stands; what the keys of a decoded
\* object hold is carried beside the text, in the field value.
MaxText == 3

Chars == {"{", "}", "[", "]", "x"}

Closer(ch) == IF ch = "{" THEN "}" ELSE "]"

\* json.loads over Chars: the kind of the one value s holds ("dict", "list"),
\* or "error"
RECURSIVE Scan(_, _, _)
Scan(s, i, stack) ==
    IF i > Len(s) THEN stack = <<>>
    ELSE IF s[i] = "x" THEN FALSE
    ELSE IF stack = <<>> /\ i > 1 THEN FALSE
    ELSE IF s[i] \in {"{", "["} THEN Scan(s, i + 1, <<Closer(s[i])>> \o stack)
    ELSE stack # <<>> /\ Head(stack) = s[i] /\ Scan(s, i + 1, Tail(stack))

json_loads(s) ==
    IF s = <<>> \/ ~Scan(s, 1, <<>>) THEN "error"
    ELSE IF s[1] = "{" THEN "dict"
    ELSE "list"

\* _try_json_decode: the decoded dict or list, else None
_try_json_decode(s) ==
    LET parsed == json_loads(s)
    IN  IF parsed \in {"dict", "list"} THEN parsed ELSE "None"

\* the index at which the depth of open_ch, counted from start_idx, is back
\* at zero; 0 when it never is (the code's -1)
RECURSIVE _find_balanced_from(_, _, _, _, _)
_find_balanced_from(s, open_ch, close_ch, i, depth) ==
    IF i > Len(s) THEN 0
    ELSE IF s[i] = open_ch THEN _find_balanced_from(s, open_ch, close_ch, i + 1, depth + 1)
    ELSE IF s[i] = close_ch
         THEN IF depth - 1 = 0 THEN i
              ELSE _find_balanced_from(s, open_ch, close_ch, i + 1, depth - 1)
    ELSE _find_balanced_from(s, open_ch, close_ch, i + 1, depth)

_find_balanced(s, open_ch, close_ch, start_idx) ==
    _find_balanced_from(s, open_ch, close_ch, start_idx, 0)

\* text.find(ch): the first index of ch, 0 when there is none
Find(s, ch) ==
    LET at == {i \in 1..Len(s) : s[i] = ch}
    IN  IF at = {} THEN 0 ELSE Min(at)

\* the candidates of the fallback, the one from the first '{' first
Candidate(s, open_ch) ==
    LET first == Find(s, open_ch)
        end == IF first = 0 THEN 0 ELSE _find_balanced(s, open_ch, Closer(open_ch), first)
    IN  IF end = 0 THEN <<>> ELSE <<SubSeq(s, first, end)>>

Candidates(s) == Candidate(s, "{") \o Candidate(s, "[")

\* str(resp_obj): the text inside what the response object prints around it
str(resp_obj) == resp_obj.repr.pre \o resp_obj.text \o resp_obj.repr.post

ParseFailure(resp_obj) ==
    [result |-> "Failed to parse AI response as JSON", raw |-> str(resp_obj)]

\* the function without its last step: what does not decode counts as an object
_safe_json_from_response_NoFailure(resp_obj) ==
    [kind |-> IF _try_json_decode(resp_obj.text) = "list" THEN "list" ELSE "dict",
     value |-> resp_obj.value]

\* _safe_json_from_response: the decoded value (of kind dict or list), or the
\* HTTPException it raises
_safe_json_from_response(resp_obj) ==
    LET direct == _try_json_decode(resp_obj.text)
        decoded == SelectSeq(Candidates(str(resp_obj)), LAMBDA c : _try_json_decode(c) # "None")
    IN  IF direct # "None" THEN [kind |-> direct, value |-> resp_obj.value]
        ELSE IF decoded # <<>>
        THEN [kind |-> _try_json_decode(decoded[1]), value |-> resp_obj.value]
        ELSE [kind |-> "HTTPException", value |-> ParseFailure(resp_obj)]


\* a reply is a sequence of words; a word that ends in '.', '!' or '?' closes
\* a sentence. "hello" and "hi!" are greetings, "ok" is "ok." without its dot
MaxWords == 2

Words == {"hello", "hi!", "ok."}

\* the two sentences of the notice (its first one names the user)
ownership_notice == <<"You are logged in as user.", "The owner cannot be changed.">>

Closes(word) == word \in {"hi!", "ok."} \cup Range(ownership_notice)

\* re.split(r'(?<=[.!?])\s+', s, maxsplit=1): the length of the first part
SplitAt(s) ==
    LET ends == {i \in 1..(Len(s) - 1) : Closes(s[i])}
    IN  IF ends = {} THEN Len(s) ELSE Min(ends)

\* the test of the loop over greetings, on the words of the first sentence
IsGreeting(first) == (\E i \in DOMAIN first : first[i] = "hello") \/ first[1] = "hi!"

\* the greeting words and the punctuation removed from the first sentence
Cleaned(first) ==
    LET kept == SelectSeq(first, LAMBDA w : w \notin {"hello", "hi!"})
    IN  [i \in DOMAIN kept |-> IF kept[i] = "ok." THEN "ok" ELSE kept[i]]

_strip_leading_greeting(text) ==
    IF text = <<>> THEN text
    ELSE LET first == SubSeq(text, 1, SplitAt(text))
             rest == SubSeq(text, SplitAt(text) + 1, Len(text))
         IN  IF ~IsGreeting(first) THEN text
             ELSE IF rest # <<>> THEN rest
             ELSE IF Cleaned(first) # <<>> THEN Cleaned(first)
             ELSE text

\* an action as decoded: null, a string, number, boolean or list (truthy or
\* not), or an object with its action_type ("": none), its metadata.owner_id
\* ("": none) and the owner_id of every entry of its metadata.items
JsonAction(kind, truthy, action_type, owner_id, items) ==
    [kind |-> kind, truthy |-> truthy, action_type |-> action_type,
     owner_id |-> owner_id, items |-> items]

NullAction == JsonAction("null", FALSE, "", "", <<>>)

ObjectAction(action_type, owner_id, items) ==
    JsonAction("object", action_type # "" \/ owner_id # "" \/ items # <<>>,
               action_type, owner_id, items)

\* "if action and not isinstance(action, dict)"
BadAction(action) == action.truthy /\ action.kind # "object"

\* the ownership guard: the action as it leaves the guard
Guarded(user_id, intent, action) ==
    LET as_item == intent = "register_item" \/ action.action_type = "register_item"
        as_disposal == \/ intent = "register_disposal_intent"
                       \/ action.action_type = "register_disposal_intent"
    IN  IF action.kind # "object" THEN action
        ELSE ObjectAction(action.action_type,
                          IF as_item THEN EnforcedOwner(user_id, action.owner_id)
                          ELSE action.owner_id,
                          IF as_disposal
                          THEN [i \in DOMAIN action.items |->
                                   EnforcedOwner(user_id, action.items[i])]
                          ELSE action.items)

\* whether the guard sets ownership_notice
Noticed(user_id, intent, action) ==
    /\ action.kind = "object"
    /\ \/ /\ intent = "register_item" \/ action.action_type = "register_item"
          /\ action.owner_id \notin {"", user_id}
       \/ /\ \/ intent = "register_disposal_intent"
             \/ action.action_type = "register_disposal_intent"
          /\ \E i \in DOMAIN action.items : action.items[i] \notin {"", user_id}

\* float(confidence), None when it raises
Coerced(confidence) ==
    IF confidence \in {"number", "numeric string", "boolean"} THEN "number" ELSE Null

BrainError(detail) == [result |-> detail, raw |-> <<>>]

\* run_localloop_brain from the response of the model on: the record it
\* returns, or the HTTPException it raises
Brain(user_id, resp_obj) ==
    LET parsed == _safe_json_from_response(resp_obj)
        value == parsed.value
        noticed == IF Noticed(user_id, value.intent, value.action)
                 THEN value.reply.words \o ownership_notice
                 ELSE value.reply.words
    IN  IF parsed.kind = "HTTPException" THEN parsed.value
        ELSE IF parsed.kind # "dict" THEN BrainError("AI returned non-object JSON")
        ELSE IF value.intent = Null \/ value.reply.null
        THEN BrainError("AI response missing keys")
        ELSE IF BadAction(value.action) THEN BrainError("AI action must be an object or null")
        ELSE [result |-> "ok", intent |-> value.intent,
              reply |-> _strip_leading_greeting(noticed),
              action |-> Guarded(user_id, value.intent, value.action),
              confidence |-> Coerced(value.confidence)]

\* ------------------------------------------------- what the model answers
MaxChats == 1

Texts == UNION {[1..n -> Chars] : n \in 0..MaxText}

\* what the response object prints around its text: nothing, or fields and
\* lists of its own
Reprs == {[pre |-> <<>>, post |-> <<>>],
          [pre |-> <<"x", "[", "x">>, post |-> <<"x", "]", "x">>]}

Reply(words) == [null |-> FALSE, words |-> words]

NullReply == [null |-> TRUE, words |-> <<>>]

Replies == {Reply(w) : w \in UNION {[1..n -> Words] : n \in 0..MaxWords}}

Value(intent, text, action, confidence) ==
    [intent |-> intent, reply |-> text, action |-> action, confidence |-> confidence]

ObjectActions ==
    {ObjectAction("register_item", o, <<>>) : o \in Users \cup {""}}
    \cup {ObjectAction("register_disposal_intent", "", i) :
             i \in {<<>>, <<"">>, <<"anna">>, <<"peter">>, <<"anna", "peter">>}}
    \cup {ObjectAction("", o, <<>>) : o \in {"", "peter"}}

OtherActions ==
    {JsonAction(k, t, "", "", <<>>) :
        k \in {"string", "number", "boolean", "list"}, t \in BOOLEAN}

Confidences == {Null, "number", "numeric string", "text", "boolean", "list"}

\* an answer of the model: <<user_id, resp_obj>>. Every text, with one answer;
\* every object action and every reply; every kind of every key
TextInputs ==
    {<<"anna", [text |-> p[1], repr |-> p[2],
                value |-> Value("register_item", Reply(<<"ok.">>),
                                ObjectAction("register_item", "peter", <<>>), "number")]>> :
        p \in {q \in Texts \X Reprs : Len(q[1]) < MaxText \/ q[2].pre = <<>>}}

PlainObject == [text |-> <<"{", "}">>, repr |-> [pre |-> <<>>, post |-> <<>>]]

Answer(value) == [text |-> PlainObject.text, repr |-> PlainObject.repr, value |-> value]

GuardInputs ==
    {<<u, Answer(Value(i, r, a, "number"))>> :
        u \in Users, i \in {"register_item", "register_disposal_intent", "smalltalk"},
        r \in {Reply(<<"ok.">>), Reply(<<"hello">>)}, a \in ObjectActions}
    \cup {<<u, Answer(Value("register_item", r, ObjectAction("register_item", o, <<>>),
                            "number"))>> :
             u \in Users, r \in Replies, o \in Users \cup {""}}

ValidationInputs ==
    {<<"anna", Answer(Value(i, r, a, "number"))>> :
        i \in {Null, "smalltalk"}, r \in {NullReply, Reply(<<"ok.">>)},
        a \in {NullAction, ObjectAction("", "", <<>>),
               ObjectAction("register_item", "", <<>>)} \cup OtherActions}
    \cup {<<"anna", Answer(Value("smalltalk", Reply(<<"ok.">>), NullAction, c))>> :
             c \in Confidences}
    \cup {<<"anna", [text |-> <<"[", "]">>, repr |-> PlainObject.repr,
                     value |-> Value("smalltalk", Reply(<<"ok.">>), NullAction, Null)]>>}

BrainInputs == GuardInputs \cup ValidationInputs

\* client.responses.create: the request went to the model and its answer is
\* back; reply holds the answer until the call goes on
responses_create(user_id, resp_obj) ==
    /\ calls < MaxChats
    /\ reply.result # "response"
    /\ reply' = [result |-> "response", user_id |-> user_id, resp_obj |-> resp_obj]
    /\ UNCHANGED <<BUILDING_STATE, db_BUILDING_STATE, rebound, itemObj, borObj, impactObj,
                   disk, loaded, shared, calls>>

\* run_localloop_brain alone, from the answer on: it leaves the store as it is
run_localloop_brain ==
    /\ reply.result = "response"
    /\ Return(Brain(reply.user_id, reply.resp_obj))
    /\ UNCHANGED <<BUILDING_STATE, db_BUILDING_STATE, rebound, itemObj, borObj, impactObj,
                   disk, loaded, shared>>

\* POST /api/chat, from the answer on
post_chat ==
    /\ reply.result = "response"
    /\ LET user_id == reply.user_id
           brain_result == Brain(user_id, reply.resp_obj)
           action == brain_result.action
       IN  IF brain_result.result # "ok"
           THEN /\ Return(brain_result)
                /\ UNCHANGED <<BUILDING_STATE, db_BUILDING_STATE, rebound, itemObj, borObj,
                               impactObj, disk, loaded, shared>>
           ELSE IF ~action.truthy THEN post_chat_no_action
           ELSE IF action.action_type = "register_item"
           THEN register_item(user_id, TRUE, "", action.owner_id)
           ELSE IF action.action_type = "register_disposal_intent"
           THEN register_disposal_intent(
                    user_id,
                    [i \in DOMAIN action.items |->
                        [tags |-> {"books"}, owner_id |-> action.items[i]]],
                    <<>>, <<"books">>)
           ELSE apply_unknown

\* db.json before the chat: the residents, and nothing else
BrainFile ==
    [residents |-> SeedResidents, items |-> <<>>, borrowings |-> <<>>, impact |-> ZeroImpact,
     events |-> <<>>, disposal_intents |-> <<>>]

InitBrain ==
    LET m == Import(BrainFile)
    IN  /\ BUILDING_STATE = m.BUILDING_STATE
        /\ db_BUILDING_STATE = m.BUILDING_STATE
        /\ rebound = FALSE
        /\ itemObj = m.itemObj
        /\ borObj = m.borObj
        /\ impactObj = m.impactObj
        /\ disk = BrainFile
        /\ loaded = TRUE
        /\ reply = Booted
        /\ calls = 0
        /\ shared = LIST_KEYS

NextBrain ==
    \/ \E c \in BrainInputs : responses_create(c[1], c[2])
    \/ run_localloop_brain
    \/ post_chat

SpecBrain == InitBrain /\ [][NextBrain]_vars

\* the chat over every text the model can answer with
NextParse ==
    \/ \E c \in TextInputs : responses_create(c[1], c[2])
    \/ post_chat

SpecParse == InitBrain /\ [][NextParse]_vars

\* ------------------------------------------------- calls in flight together
\* The endpoints are plain "def" functions: the framework runs each request on
\* a thread of its worker pool, and no handler takes a lock.  Two calls are
\* therefore in flight together, and the interpreter may switch from one to
\* the other between any two statements.  Under SpecThreads "reply" holds one
\* frame per worker: the locals of the call the worker is running ("at" is the
\* statement it stands before), or the answer of the call it has finished.
Workers == {1, 2}

Frame(result, id, at, op, user_id, item_id, item, lender_id) ==
    [result |-> result, id |-> id, at |-> at, op |-> op, user_id |-> user_id,
     item_id |-> item_id, item |-> item, lender_id |-> lender_id]

Idle == Frame("boot", 0, "idle", "", "", 0, 0, "")

Running(w) == reply[w].at # "idle"

InFlight == Cardinality({w \in Workers : Running(w)})

\* the statements of a step leave the stores and the file alone
StoresUnchanged ==
    UNCHANGED <<BUILDING_STATE, db_BUILDING_STATE, rebound, itemObj, borObj, impactObj, disk, loaded, shared>>

\* request_borrowing up to "Item must be in a requestable state": the lookups
\* and the tests, on the store as it stands when the worker runs them
request_borrowing_checks(w, user_id, item_id) ==
    /\ ~Running(w)
    /\ calls + InFlight < MaxCalls
    /\ StoresUnchanged
    /\ LET st == BUILDING_STATE
           item == First(st.items, LAMBDA r : itemObj[r].id = item_id)
           lender_id == itemObj[item].owner_id
           blocking == First(st.borrowings, LAMBDA b :
                           /\ borObj[b].item_id = item_id
                           /\ borObj[b].status \in {"active", "waiting_for_confirm"})
           dup_same_user == First(st.borrowings, LAMBDA b :
                           /\ borObj[b].item_id = item_id
                           /\ borObj[b].borrower_id = user_id
                           /\ borObj[b].status = "waiting_for_confirm")
           raised(result) ==
               /\ reply' = [reply EXCEPT ![w] = Frame(result, 0, "idle", "request_borrowing",
                                                       user_id, item_id, 0, "")]
               /\ calls' = calls + 1
       IN  IF user_id \notin Range(st.residents) THEN raised("404")
           ELSE IF item = 0 THEN raised("404")
           ELSE IF user_id = lender_id THEN raised("400")
           ELSE IF blocking # 0 THEN raised("400")
           ELSE IF dup_same_user # 0 THEN raised("400")
           ELSE IF ~Requestable(itemObj[item].status) THEN raised("400")
           ELSE /\ Len(borObj) + InFlight < MaxBorrowings
                /\ reply' = [reply EXCEPT ![w] = Frame("", 0, "borrowing_id", "request_borrowing",
                                                        user_id, item_id, item, lender_id)]
                /\ UNCHANGED calls

\* apply_action, branch create_borrow, up to "can't borrow": the tests; a call
\* that fails one of them writes the store out and returns None
create_borrow_checks(w, user_id, item_id, lender_id, start, due) ==
    /\ ~Running(w)
    /\ calls + InFlight < MaxCalls
    /\ LET item == _find_item(BUILDING_STATE, Heap, item_id)
           none ==
               /\ persist(BUILDING_STATE, Heap)
               /\ reply' = [reply EXCEPT ![w] = Frame("None", 0, "idle", "create_borrow",
                                                       user_id, item_id, 0, lender_id)]
               /\ calls' = calls + 1
       IN  IF item_id = 0 \/ lender_id = "" \/ ~start \/ ~due
           THEN none
           ELSE IF item = 0 \/ itemObj[item].status # "available"
           THEN none
           ELSE /\ Len(borObj) + InFlight < MaxBorrowings
                /\ StoresUnchanged
                /\ reply' = [reply EXCEPT ![w] = Frame("", 0, "borrowing_id", "create_borrow",
                                                        user_id, item_id, item, lender_id)]
                /\ UNCHANGED calls

\* borrowing_id = f"borrowing-{len(BUILDING_STATE.get('borrowings', [])) + 1}"
read_borrowing_id(w) ==
    /\ reply[w].at = "borrowing_id"
    /\ reply' = [reply EXCEPT ![w].id = Len(BUILDING_STATE.borrowings) + 1, ![w].at = "append"]
    /\ UNCHANGED calls
    /\ StoresUnchanged

\* BUILDING_STATE.setdefault("borrowings", []).append(borrowing)
append_borrowing(w) ==
    /\ reply[w].at = "append"
    /\ borObj' = Append(borObj, Borrowing(reply[w].id, reply[w].item_id, reply[w].lender_id,
                                          reply[w].user_id, "waiting_for_confirm"))
    /\ BUILDING_STATE' = [BUILDING_STATE EXCEPT !.borrowings = Append(@, Len(borObj) + 1)]
    /\ reply' = [reply EXCEPT ![w].at = IF reply[w].op = "request_borrowing" THEN "status" ELSE "persist"]
    /\ UNCHANGED <<db_BUILDING_STATE, rebound, itemObj, impactObj, disk, loaded, shared, calls>>

\* item["status"] = "requested" (request_borrowing only)
set_item_status(w) ==
    /\ reply[w].at = "status"
    /\ itemObj' = [itemObj EXCEPT ![reply[w].item].status = "requested"]
    /\ reply' = [reply EXCEPT ![w].at = "persist"]
    /\ UNCHANGED <<BUILDING_STATE, db_BUILDING_STATE, rebound, borObj, impactObj, disk, loaded, shared, calls>>

\* persist() and the return of the call
persist_and_return(w) ==
    /\ reply[w].at = "persist"
    /\ persist(BUILDING_STATE, Heap)
    /\ reply' = [reply EXCEPT ![w].at = "idle",
                              ![w].result = IF reply[w].op = "request_borrowing"
                                            THEN "ok" ELSE "borrow_waiting_confirmation"]
    /\ calls' = calls + 1

\* the process with its workers idle, started on db.json = raw
InitThreads ==
    \E raw \in SeedFiles :
        LET m == Import(raw)
        IN  /\ BUILDING_STATE = m.BUILDING_STATE
            /\ db_BUILDING_STATE = m.BUILDING_STATE
            /\ rebound = FALSE
            /\ itemObj = m.itemObj
            /\ borObj = m.borObj
            /\ impactObj = m.impactObj
            /\ disk = raw
            /\ loaded = TRUE
            /\ reply = [w \in Workers |-> Idle]
            /\ calls = 0
            /\ shared = LIST_KEYS

NextThreads ==
    \/ \E w \in Workers, u \in Users, i \in ItemIdInputs : request_borrowing_checks(w, u, i)
    \/ \E w \in Workers, u \in Users, m \in CreateBorrowInputs :
            create_borrow_checks(w, u, m[1], m[2], m[3], m[4])
    \/ \E w \in Workers : read_borrowing_id(w)
    \/ \E w \in Workers : append_borrowing(w)
    \/ \E w \in Workers : set_item_status(w)
    \/ \E w \in Workers : persist_and_return(w)

SpecThreads == InitThreads /\ [][NextThreads]_vars

\* ------------------------------------------------- reconciliation of raw files
\* db.json files with invalid records: every way a record can be dropped or a
\* status replaced, on items and borrowings that reference each other
\* a status that json.load gives as a list or an object: a value that cannot
\* be looked up in a set
Unhashable == "[]"

RawItems ==
    {Item(i, "peter", s) : i \in 1..2, s \in _ITEM_STATUSES \cup {"bogus"}}
    \cup {Item(0, "peter", "available"), Item(1, "", "available"), Item(1, "ghost", "borrowed")}
    \cup {Item(1, "peter", Unhashable), Item(1, "ghost", Unhashable)}

RawBorrowings ==
    {Borrowing(1, 1, "peter", "anna", s) :
        s \in {"waiting_for_confirm", "active", "returned", "return_requested"}}
    \cup {Borrowing(0, 1, "peter", "anna", "active"),
          Borrowing(2, 2, "peter", "anna", "active"),
          Borrowing(2, 1, "ghost", "anna", "active"),
          Borrowing(2, 1, "peter", "", "waiting_for_confirm"),
          Borrowing(2, 1, "anna", "anna", "bogus"),
          Borrowing(2, 1, "peter", "anna", Unhashable)}

\* the records of S as a list, in some order
RECURSIVE ListOf(_)
ListOf(S) ==
    IF S = {} THEN <<>>
    ELSE LET x == CHOOSE y \in S : TRUE
         IN  <<x>> \o ListOf(S \ {x})

\* the lists of at most n different records of S
ListsUpTo(S, n) == {ListOf(T) : T \in {U \in SUBSET S : Cardinality(U) <= n}}

RawFiles ==
    {_DEFAULT_STATE} \cup
    {[residents |-> SeedResidents, items |-> i, borrowings |-> b, impact |-> ZeroImpact,
      events |-> <<>>, disposal_intents |-> <<>>] :
        i \in ListsUpTo(RawItems, MaxRawItems), b \in ListsUpTo(RawBorrowings, MaxRawBorrowings)}

\* before the import: db.json = raw on disk, no store yet
InitRaw ==
    \E raw \in RawFiles :
        /\ BUILDING_STATE = [residents |-> <<>>, items |-> <<>>, borrowings |-> <<>>, impact |-> 1,
                             events |-> <<>>, disposal_intents |-> <<>>]
        /\ db_BUILDING_STATE = BUILDING_STATE
        /\ rebound = FALSE
        /\ itemObj = <<>>
        /\ borObj = <<>>
        /\ impactObj = <<EmptyDict, EmptyDict>>
        /\ disk = raw
        /\ loaded = FALSE
        /\ reply = [result |-> "", id |-> 0]
        /\ calls = 0
        /\ shared = LIST_KEYS

\* "status not in _ITEM_STATUSES" and "status not in _BORROW_STATUSES" raise
\* TypeError on a status that is not hashable; the tests are reached by a
\* record that passed the tests before them
TypeError(state, heap) ==
    LET resident_ids == {r \in Range(state.residents) : r # ""}
        items == SelectSeq(state.items, LAMBDA r : ItemKept(heap.item[r], resident_ids))
        item_ids == {heap.item[r].id : r \in Range(items)}
    IN  \/ \E r \in Range(items) : heap.item[r].status = Unhashable
        \/ \E b \in Range(state.borrowings) :
              /\ heap.bor[b].status = Unhashable
              /\ BorrowKept([heap.bor[b] EXCEPT !.status = "active"], item_ids, resident_ids)

\* "import model.in_memmory_db": the store, or the exception the import ends with
Load ==
    /\ ~loaded
    /\ IF TypeError(Objects(disk).state, Objects(disk).heap)
       THEN /\ reply' = [result |-> "TypeError", id |-> 0]
            /\ UNCHANGED <<BUILDING_STATE, db_BUILDING_STATE, itemObj, borObj, impactObj,
                           loaded>>
       ELSE /\ LET m == Import(disk)
               IN  /\ BUILDING_STATE' = m.BUILDING_STATE
                   /\ db_BUILDING_STATE' = m.BUILDING_STATE
                   /\ itemObj' = m.itemObj
                   /\ borObj' = m.borObj
                   /\ impactObj' = m.impactObj
            /\ loaded' = TRUE
            /\ reply' = Booted
    /\ UNCHANGED <<rebound, disk, calls, shared>>

\* persist() on the loaded store, again and again, with no mutation in between
Persist ==
    /\ loaded
    /\ apply_null

NextReconcile ==
    \/ Load
    \/ Persist

SpecReconcile == InitRaw /\ [][NextReconcile]_vars

\* =================================================================== claims
\* statuses of the borrowings of store st that reference the item id iid
BorrowStatuses(st, heap, iid) ==
    {heap.bor[b].status : b \in {x \in Range(st.borrowings) : heap.bor[x].item_id = iid}}

StatusAgrees(status, statuses) ==
    IF "active" \in statuses THEN status = "borrowed"
    ELSE IF "waiting_for_confirm" \in statuses THEN status = "requested"
    ELSE IF "return_requested" \in statuses THEN status = "borrowed"
    ELSE status \notin {"borrowed", "requested"}

\* C1: after every call, in the store the handlers read, each item's status
\* agrees with its borrowings: 'borrowed' if one is active, else 'requested' if
\* one is waiting_for_confirm, else 'borrowed' if one is return_requested, else
\* neither 'borrowed' nor 'requested'.
C1_StatusAgreesWithBorrowings ==
    \A r \in Range(BUILDING_STATE.items) :
        StatusAgrees(itemObj[r].status, BorrowStatuses(BUILDING_STATE, Heap, itemObj[r].id))

\* what one more reconciliation makes of the store st
Reconciled(st, heap) ==
    LET c == _cleanup_state(st, heap)
    IN  Snapshot(c.cleaned, [heap EXCEPT !.item = c.item])

\* C2: reconciliation is idempotent: reconciling the store built from any raw
\* file a second time changes nothing, and a persist() that follows a persist()
\* with no mutation in between writes the snapshot already on disk.
C2_ReconcileIdempotent ==
    /\ [](loaded => Reconciled(db_BUILDING_STATE, Heap) = Snapshot(db_BUILDING_STATE, Heap))
    /\ [][(rebound /\ Persist) => disk' = disk]_vars

\* persist() ran twice on a store from which the first reconciliation dropped an
\* item and a borrowing and in which it changed the status of a surviving item
C2_Witness ==
    /\ calls = 2
    /\ Len(db_BUILDING_STATE.items) > 0
    /\ Len(borObj) > Len(db_BUILDING_STATE.borrowings)
    /\ Len(db_BUILDING_STATE.borrowings) > 0
    /\ \E r \in Range(db_BUILDING_STATE.items) : itemObj[r].status = "borrowed"

\* the raw file with the stored status of item i replaced by alt[i]
WithStatuses(raw, alt) ==
    [raw EXCEPT !.items = [i \in DOMAIN raw.items |-> [raw.items[i] EXCEPT !.status = alt[i]]]]

StoredStatuses == _ITEM_STATUSES \cup {"bogus"}

\* the status reconciliation gives each surviving item of the raw file
SurvivorStatus(raw) ==
    LET m == Import(raw)
    IN  [r \in Range(m.BUILDING_STATE.items) |-> m.itemObj[r].status]

\* C3 as stated: two raw files that differ only in the stored statuses of their
\* items give every surviving item the same status.
C3_StatusFunctionOfBorrowingsOnly ==
    (loaded /\ ~rebound) =>
        \A alt \in [DOMAIN disk.items -> StoredStatuses] :
            SurvivorStatus(WithStatuses(disk, alt)) =
                [r \in Range(BUILDING_STATE.items) |-> itemObj[r].status]

Decisive(statuses) == statuses \cap {"active", "waiting_for_confirm", "return_requested"} # {}

Collapse(status) ==
    IF status \in {"available", "unavailable", "archived"} THEN status ELSE "available"

\* C3 amended: a surviving item gets the same status from both files exactly
\* when a surviving borrowing of it is active, waiting_for_confirm or
\* return_requested, or its two stored statuses agree once 'borrowed',
\* 'requested' and unknown values are read as 'available': with no such
\* borrowing a stored available, unavailable or archived is kept.
C3_StatusFunctionOfBorrowingsAndStored ==
    (loaded /\ ~rebound) =>
        \A alt \in [DOMAIN disk.items -> StoredStatuses] :
            \A r \in Range(BUILDING_STATE.items) :
                (SurvivorStatus(WithStatuses(disk, alt))[r] = itemObj[r].status)
                <=> \/ Decisive(BorrowStatuses(BUILDING_STATE, Heap, itemObj[r].id))
                    \/ Collapse(alt[r]) = Collapse(disk.items[r].status)

\* an archived item survived the import with no borrowing that decides its status
C3_Witness ==
    /\ loaded /\ ~rebound
    /\ \E r \in Range(BUILDING_STATE.items) :
          /\ disk.items[r].status = "archived"
          /\ itemObj[r].status = "archived"
          /\ BorrowStatuses(BUILDING_STATE, Heap, itemObj[r].id) = {"returned"}

\* the counter key of the impact dict the handlers update (0 when missing)
Counter(heap, key) ==
    LET imp == heap.imp[BUILDING_STATE.impact]
    IN  IF key \in DOMAIN imp THEN imp[key] ELSE 0

HeapAfter == [item |-> itemObj', bor |-> borObj', imp |-> impactObj']

\* the object the call appended to the handlers' borrowings (0: none)
Created ==
    IF Len(BUILDING_STATE'.borrowings) = Len(BUILDING_STATE.borrowings) + 1
    THEN BUILDING_STATE'.borrowings[Len(BUILDING_STATE'.borrowings)]
    ELSE 0

\* C4: whenever an available item i of owner o is requested by b # o, a borrowing
\* is created in waiting_for_confirm and i becomes 'requested'; a confirm that
\* succeeds makes the borrowing active, its item 'borrowed' and borrows_count one
\* more; a return of an active borrowing makes it returned, its item 'available'
\* and leaves borrows_count alone.
C4_BorrowScenario ==
    [][/\ \A b \in Users, i \in ItemIdInputs :
            LET item == _find_item(BUILDING_STATE, Heap, i)
            IN  (/\ request_borrowing(b, i)
                 /\ item # 0
                 /\ itemObj[item].status = "available"
                 /\ itemObj[item].owner_id # b
                 /\ b \in Range(BUILDING_STATE.residents))
                => /\ reply'.result = "ok"
                   /\ Created # 0
                   /\ borObj'[Created].status = "waiting_for_confirm"
                   /\ itemObj'[item].status = "requested"
       /\ \A o \in Users, id \in BorrowingIdInputs :
            LET borrowing == _find_borrowing(BUILDING_STATE, Heap, id)
                item == _find_item(BUILDING_STATE, Heap, borObj[borrowing].item_id)
            IN  (confirm_borrowing_endpoint(o, id) /\ reply'.result = "ok")
                => /\ borObj'[borrowing].status = "active"
                   /\ item # 0 => itemObj'[item].status = "borrowed"
                   /\ Counter(HeapAfter, "borrows_count") = Counter(Heap, "borrows_count") + 1
       /\ \A id \in BorrowingIdInputs :
            LET borrowing == _find_borrowing(BUILDING_STATE, Heap, id)
                item == _find_item(BUILDING_STATE, Heap, borObj[borrowing].item_id)
            IN  (/\ return_borrowing(id) \/ mark_returned(id)
                 /\ borrowing # 0
                 /\ borObj[borrowing].status = "active")
                => /\ borObj'[borrowing].status = "returned"
                   /\ item # 0 => itemObj'[item].status = "available"
                   /\ Counter(HeapAfter, "borrows_count") = Counter(Heap, "borrows_count")
      ]_vars

ConfirmAllowed(owner_id, borrowing_id) ==
    LET borrowing == _find_borrowing(BUILDING_STATE, Heap, borrowing_id)
    IN  /\ borrowing # 0
        /\ borObj[borrowing].status = "waiting_for_confirm"
        /\ borObj[borrowing].lender_id = owner_id

\* C5: confirm_borrowing(owner_id, borrowing_id) succeeds if and only if the
\* borrowing exists, is waiting_for_confirm and has lender_id = owner_id.
C5_ConfirmSucceedsIff ==
    [][\A o \in Users, id \in BorrowingIdInputs :
          confirm_borrowing_endpoint(o, id)
          => (reply'.result = "ok" <=> ConfirmAllowed(o, id))
      ]_vars

\* C6: a borrowing becomes active only in a confirm call made by the owner_id
\* of the borrowing's item.
C6_ActivatedByItemOwner ==
    [][\A b \in DOMAIN borObj :
          (borObj[b].status # "active" /\ borObj'[b].status = "active")
          => \E o \in Users, id \in BorrowingIdInputs :
                LET item == _find_item(BUILDING_STATE, Heap, borObj[b].item_id)
                IN  /\ confirm_borrowing_endpoint(o, id)
                    /\ _find_borrowing(BUILDING_STATE, Heap, id) = b
                    /\ item # 0
                    /\ itemObj[item].owner_id = o
      ]_vars

\* C7: every borrowing's lender_id and borrower_id are ids of residents and
\* differ, and its item_id is the id of an item of the store.
C7_BorrowingsReferToResidentsAndItems ==
    \A st \in {BUILDING_STATE, db_BUILDING_STATE} :
        \A b \in Range(st.borrowings) :
            /\ borObj[b].lender_id \in Range(st.residents)
            /\ borObj[b].borrower_id \in Range(st.residents)
            /\ borObj[b].lender_id # borObj[b].borrower_id
            /\ \E r \in Range(st.items) : itemObj[r].id = borObj[b].item_id

\* C8: create_borrow creates no borrowing when the acting user owns the item,
\* none when a borrowing of the item is active or waiting_for_confirm, and a
\* borrowing it creates starts in waiting_for_confirm.
C8_CreateBorrowGuards ==
    [][\A u \in Users, m \in CreateBorrowInputs :
          LET item == _find_item(BUILDING_STATE, Heap, m[1])
          IN  create_borrow(u, m[1], m[2], m[3], m[4])
              => /\ (item # 0 /\ itemObj[item].owner_id = u) => Created = 0
                 /\ BorrowStatuses(BUILDING_STATE, Heap, m[1])
                        \cap {"active", "waiting_for_confirm"} # {} => Created = 0
                 /\ Created # 0 => borObj'[Created].status = "waiting_for_confirm"
      ]_vars

\* the failures the specification lists for a request
RequestFailsAsStated(user_id, item_id) ==
    LET item == _find_item(BUILDING_STATE, Heap, item_id)
    IN  \/ item = 0
        \/ itemObj[item].owner_id = user_id
        \/ BorrowStatuses(BUILDING_STATE, Heap, item_id) \cap {"active", "waiting_for_confirm"} # {}

\* the status the closing persist leaves on the item a request just set to
\* 'requested': re-derived from the borrowings of the store persist reconciles
StatusAfterRequest(item, item_id) ==
    IF rebound /\ item \in Range(db_BUILDING_STATE.items)
    THEN DerivedStatus("requested", BorrowStatuses(db_BUILDING_STATE, Heap, item_id))
    ELSE "requested"

\* C9 (as stated): request_borrowing fails exactly when the item is unknown, the
\* borrower owns it or a borrowing of it is active or waiting_for_confirm;
\* otherwise it creates a waiting_for_confirm borrowing, sets an 'available' or
\* 'unavailable' item to 'requested' and leaves any other status untouched.
C9_RequestAsStated ==
    [][\A u \in Users, i \in ItemIdInputs :
          LET item == _find_item(BUILDING_STATE, Heap, i)
          IN  request_borrowing(u, i)
              => /\ reply'.result # "ok" <=> RequestFailsAsStated(u, i)
                 /\ reply'.result = "ok"
                    => /\ Created # 0
                       /\ borObj'[Created].status = "waiting_for_confirm"
                       /\ itemObj'[item].status =
                             IF itemObj[item].status \in {"available", "unavailable"}
                             THEN "requested" ELSE itemObj[item].status
      ]_vars

\* C9 (amended): request_borrowing fails exactly when the borrower is no
\* resident, the item is unknown, the borrower owns it, a borrowing of it is
\* active or waiting_for_confirm, or the item is neither 'available' nor
\* 'unavailable'; a failed request changes nothing. Otherwise it appends a
\* waiting_for_confirm borrowing from the owner to the borrower and sets the
\* item to 'requested', which the closing persist re-derives.
C9_RequestFailsOrCreates ==
    [][\A u \in Users, i \in ItemIdInputs :
          LET item == _find_item(BUILDING_STATE, Heap, i)
          IN  request_borrowing(u, i)
              => /\ reply'.result # "ok"
                    <=> \/ u \notin Range(BUILDING_STATE.residents)
                        \/ RequestFailsAsStated(u, i)
                        \/ itemObj[item].status \notin {"available", "unavailable"}
                 /\ reply'.result # "ok"
                    => UNCHANGED <<BUILDING_STATE, db_BUILDING_STATE, itemObj, borObj,
                                   impactObj, disk>>
                 /\ reply'.result = "ok"
                    => /\ Created # 0
                       /\ borObj'[Created] =
                             Borrowing(reply'.id, i, itemObj[item].owner_id, u,
                                       "waiting_for_confirm")
                       /\ itemObj'[item].status = StatusAfterRequest(item, i)
      ]_vars

\* a request has just created a borrowing and left its item 'requested'
C9_Witness ==
    /\ reply.result = "ok"
    /\ \E b \in Range(BUILDING_STATE.borrowings) :
          /\ borObj[b].id = reply.id
          /\ borObj[b].status = "waiting_for_confirm"
          /\ borObj[b].lender_id # borObj[b].borrower_id
          /\ \E r \in Range(BUILDING_STATE.items) :
                /\ itemObj[r].id = borObj[b].item_id
                /\ itemObj[r].status = "requested"

\* C10 (as stated): a borrowing's status changes only along waiting_for_confirm
\* -> active -> returned and return_requested -> returned: never from
\* waiting_for_confirm or cancelled to returned, never to cancelled or
\* return_requested, and never away from returned.
C10_LifecycleAsStated ==
    [][\A b \in DOMAIN borObj :
          borObj'[b].status # borObj[b].status
          => <<borObj[b].status, borObj'[b].status>>
                \in {<<"waiting_for_confirm", "active">>,
                     <<"active", "returned">>,
                     <<"return_requested", "returned">>}
      ]_vars

\* C10 (amended): a borrowing's status changes only from waiting_for_confirm to
\* active, or from any status but returned to returned (a return is accepted in
\* waiting_for_confirm, cancelled, return_requested and active alike); no
\* operation sets cancelled or return_requested and a returned borrowing never
\* changes status again.
C10_LifecycleEdges ==
    [][\A b \in DOMAIN borObj :
          borObj'[b].status # borObj[b].status
          => \/ /\ borObj[b].status = "waiting_for_confirm"
                /\ borObj'[b].status = "active"
             \/ /\ borObj[b].status # "returned"
                /\ borObj'[b].status = "returned"
      ]_vars

\* a borrowing created during the run (no stored borrowing has lender anna)
\* that nobody confirmed (no confirm has counted a borrow) is returned
C10_Witness ==
    /\ reply.result \in {"ok", "marked_returned"}
    /\ Counter(Heap, "borrows_count") = 0
    /\ \E b \in Range(BUILDING_STATE.borrowings) :
          /\ borObj[b].id = reply.id
          /\ borObj[b].lender_id = "anna"
          /\ borObj[b].status = "returned"


\* ------------------------------------------------- returns of a returned borrowing
ItemStatuses(heap) == [r \in DOMAIN heap.item |-> heap.item[r].status]

\* C11: a return of a borrowing that is already 'returned', by the mark_returned
\* action or by the return endpoint, answers 'already_returned' and leaves the
\* borrowings, the item statuses and the impact counters as they were.
C11_ReturnOfReturnedIsNoOp ==
    [][\A id \in BorrowingIdInputs :
          LET borrowing == _find_borrowing(BUILDING_STATE, Heap, id)
          IN  (/\ mark_returned(id) \/ return_borrowing(id)
               /\ borrowing # 0
               /\ borObj[borrowing].status = "returned")
              => /\ reply'.result = "already_returned"
                 /\ BUILDING_STATE'.borrowings = BUILDING_STATE.borrowings
                 /\ borObj' = borObj
                 /\ ItemStatuses(HeapAfter) = ItemStatuses(Heap)
                 /\ impactObj' = impactObj
      ]_vars


\* ------------------------------------------------- rejected confirms
\* C12: a confirm of an unknown borrowing, by a caller who is not its lender_id,
\* or of a borrowing that is not waiting_for_confirm raises ValueError (a 400 at
\* the endpoint) and leaves both dicts, every item, every borrowing, the impact
\* counters and the file as they were.
C12_RejectedConfirmChangesNothing ==
    [][\A o \in Users, id \in BorrowingIdInputs :
          (~ConfirmAllowed(o, id) /\ confirm_borrowing_endpoint(o, id))
          => /\ reply'.result = "ValueError"
             /\ UNCHANGED <<BUILDING_STATE, db_BUILDING_STATE, itemObj, borObj,
                            impactObj, disk>>
      ]_vars

\* a confirm has been rejected while the store holds an active borrowing and a
\* borrowed item
C12_Witness ==
    /\ reply.result = "ValueError"
    /\ \E b \in Range(BUILDING_STATE.borrowings) : borObj[b].status = "active"
    /\ \E r \in Range(BUILDING_STATE.items) : itemObj[r].status = "borrowed"


\* ------------------------------------------------- the per-borrow counters
ConfirmSucceeds ==
    \E o \in Users, id \in BorrowingIdInputs :
        reply'.result = "ok" /\ confirm_borrowing_endpoint(o, id)

\* C13: a confirm that succeeds adds exactly 1 to borrows_count,
\* CO2_PER_BORROW_KG to co2_saved_kg and WASTE_PER_BORROW_KG to
\* waste_avoided_kg, and it confirms a borrowing that was waiting_for_confirm;
\* every other step (request, create_borrow, return, a failed confirm, ...)
\* leaves the three counters alone; no borrowing ever goes back to
\* waiting_for_confirm, so each borrowing is counted at most once.
C13_CountersGrowOnConfirmOnly ==
    [][/\ \A o \in Users, id \in BorrowingIdInputs :
            LET borrowing == _find_borrowing(BUILDING_STATE, Heap, id)
            IN  (reply'.result = "ok" /\ confirm_borrowing_endpoint(o, id))
                => /\ Counter(HeapAfter, "borrows_count") = Counter(Heap, "borrows_count") + 1
                   /\ Counter(HeapAfter, "co2_saved_kg")
                        = Counter(Heap, "co2_saved_kg") + 2 * CO2_PER_BORROW_KG
                   /\ Counter(HeapAfter, "waste_avoided_kg")
                        = Counter(Heap, "waste_avoided_kg") + 2 * WASTE_PER_BORROW_KG
                   /\ borObj[borrowing].status = "waiting_for_confirm"
                   /\ borObj'[borrowing].status = "active"
       /\ ~ConfirmSucceeds
            => \A k \in {"borrows_count", "co2_saved_kg", "waste_avoided_kg"} :
                  Counter(HeapAfter, k) = Counter(Heap, k)
       /\ \A b \in DOMAIN borObj :
            borObj[b].status # "waiting_for_confirm"
            => borObj'[b].status # "waiting_for_confirm"
      ]_vars

\* a confirm has succeeded and has been counted once
C13_Witness ==
    /\ Counter(Heap, "borrows_count") = 1
    /\ Counter(Heap, "co2_saved_kg") = 2 * CO2_PER_BORROW_KG
    /\ \E b \in Range(BUILDING_STATE.borrowings) : borObj[b].status = "active"
    /\ calls > 0


\* ------------------------------------------------- null and unknown actions
\* C14: apply_action with a null action, or with an action_type that matches
\* no branch, changes no item, borrowing, disposal intent, event or counter,
\* and calls persist before it returns: the db module's dict has been replaced
\* and the file holds its reconciled content.
C14_NullOrUnknownOnlyWrites ==
    [][(apply_null \/ apply_unknown)
       => /\ UNCHANGED <<BUILDING_STATE, itemObj, borObj, impactObj>>
          /\ rebound'
          /\ disk' = Snapshot(db_BUILDING_STATE', HeapAfter)
      ]_vars


\* ------------------------------------------------- validation no-ops
\* the neutral result: None is returned, no record and no counter has changed,
\* and persist has run (the db module's dict replaced, its content on file)
NeutralNoOp ==
    /\ reply' = None
    /\ UNCHANGED <<BUILDING_STATE, itemObj, borObj, impactObj>>
    /\ rebound'
    /\ disk' = Snapshot(db_BUILDING_STATE', HeapAfter)

\* a step of one of the calls the interpreter answers with a validation no-op
ValidationNoOpCall ==
    \/ \E u \in Users, m \in CreateBorrowInputs :
          LET item == _find_item(BUILDING_STATE, Heap, m[1])
          IN  /\ \/ m[1] = 0 \/ m[2] = "" \/ ~m[3] \/ ~m[4]
                 \/ item = 0
                 \/ itemObj[item].status # "available"
              /\ create_borrow(u, m[1], m[2], m[3], m[4])
    \/ \E b \in BorrowingIdInputs :
          _find_borrowing(BUILDING_STATE, Heap, b) = 0 /\ mark_returned(b)
    \/ \E u \in Users, m \in RegisterInputs :
          ~m[1] /\ register_item(u, m[1], m[2], m[3])
    \/ \E u \in Users :
          register_disposal_intent(u, <<>>, <<>>, <<>>)

AskedOwner(user_id, owner) == IF owner # "" THEN owner ELSE user_id
AskedStatus(status) == IF status # "" THEN status ELSE "available"

BooksIntents(st) == {i \in DOMAIN st.disposal_intents : "books" \in st.disposal_intents[i].tags}

\* the events a call appended to the handlers' event log
NewEvents == SubSeq(BUILDING_STATE'.events, Len(BUILDING_STATE.events) + 1,
                    Len(BUILDING_STATE'.events))

\* the impact dict has the three counters _create_event adds to
HasEventCounters ==
    {"co2_saved_kg", "waste_avoided_kg", "events_count"}
        \subseteq DOMAIN impactObj[BUILDING_STATE.impact]

\* C17 (as stated): three users register one 'books' intent each, none stored
\* before; the third registration emits exactly one collection event, with
\* intents_count 3, and leaves no intent tagged 'books'.
C17_ThirdIntentTriggers ==
    [][(register_books /\ calls = 2)
       => /\ Len(NewEvents) = 1
          /\ NewEvents[1].category = "books"
          /\ NewEvents[1].intents_count = 3
          /\ BooksIntents(BUILDING_STATE') = {}
      ]_vars

\* C17 (amended): the first registration emits no event and leaves one 'books'
\* intent. The second emits exactly one collection event, with intents_count
\* 2; it then removes both intents, and the third registration emits no event
\* and leaves its own intent as the only 'books' intent. When the impact dict
\* lacks a counter of _create_event, the second and the third registration
\* each append one event (intents_count 2, then 3), raise KeyError and remove
\* nothing.
C17_SecondIntentTriggers ==
    [][register_books
       => /\ calls = 0
             => /\ NewEvents = <<>>
                /\ Cardinality(BooksIntents(BUILDING_STATE')) = 1
                /\ reply'.result = "disposal_registered"
          /\ (calls = 1 /\ HasEventCounters)
             => /\ Len(NewEvents) = 1
                /\ NewEvents[1].category = "books"
                /\ NewEvents[1].intents_count = 2
                /\ BooksIntents(BUILDING_STATE') = {}
                /\ reply'.result = "disposal_registered"
          /\ (calls = 2 /\ HasEventCounters)
             => /\ NewEvents = <<>>
                /\ Cardinality(BooksIntents(BUILDING_STATE')) = 1
                /\ reply'.result = "disposal_registered"
          /\ (calls \in {1, 2} /\ ~HasEventCounters)
             => /\ Len(NewEvents) = 1
                /\ NewEvents[1].category = "books"
                /\ NewEvents[1].intents_count = calls + 1
                /\ Cardinality(BooksIntents(BUILDING_STATE')) = calls + 1
                /\ reply'.result = "KeyError"
      ]_vars

\* the three registrations are done: the last event is the one of the second
\* registration and the third user's intent is still stored
C17_Witness ==
    /\ calls = 3
    /\ reply.result = "disposal_registered"
    /\ reply.created_events = <<>>
    /\ BUILDING_STATE.events # <<>>
    /\ BUILDING_STATE.events[Len(BUILDING_STATE.events)].intents_count = 2
    /\ \E i \in BooksIntents(BUILDING_STATE) :
          BUILDING_STATE.disposal_intents[i].owner_id = "jan"


\* ------------------------------------------------- the collection event
\* the handlers' disposal store once the entries of a batch are appended
Appended(user_id, items, categories) ==
    CreateIntents(BUILDING_STATE.disposal_intents,
                  items \o [i \in DOMAIN categories |->
                              [tags |-> {categories[i]}, owner_id |-> ""]],
                  user_id)

\* C18: a register_disposal_intent that touches the one tag t and finds n
\* stored intents carrying t: if n is at least the threshold it appends exactly
\* one collection event with category t and intents_count n, adds 1 to
\* events_count, CO2_PER_EVENT_ITEM_KG * ESTIMATED_ITEMS_PER_INTENT * n to
\* co2_saved_kg and WASTE_PER_EVENT_ITEM_KG * ESTIMATED_ITEMS_PER_INTENT * n to
\* waste_avoided_kg, and removes every intent carrying t; if n is below the
\* threshold it emits no event and removes nothing.
C18_EventArithmetic ==
    [][\A u \in Users, m \in DisposalInputs \ {<< <<>>, <<>> >>}, t \in Tags :
          LET appended == Appended(u, m[1], m[2])
              n == Cardinality({i \in DOMAIN appended : t \in appended[i].tags})
          IN  register_disposal_intent(u, m[1], m[2], <<t>>)
              => IF n >= DISPOSAL_INTENT_THRESHOLD
                 THEN /\ Len(NewEvents) = 1
                      /\ NewEvents[1].category = t
                      /\ NewEvents[1].intents_count = n
                      /\ Counter(HeapAfter, "events_count") = Counter(Heap, "events_count") + 1
                      /\ Counter(HeapAfter, "co2_saved_kg") = Counter(Heap, "co2_saved_kg")
                            + CO2_PER_EVENT_ITEM_HALF_KG * ESTIMATED_ITEMS_PER_INTENT * n
                      /\ Counter(HeapAfter, "waste_avoided_kg") = Counter(Heap, "waste_avoided_kg")
                            + WASTE_PER_EVENT_ITEM_HALF_KG * ESTIMATED_ITEMS_PER_INTENT * n
                      /\ BUILDING_STATE'.disposal_intents
                            = SelectSeq(appended, LAMBDA it : t \notin it.tags)
                 ELSE /\ NewEvents = <<>>
                      /\ BUILDING_STATE'.disposal_intents = appended
      ]_vars


\* ------------------------------------------------- the order of the tag checks
\* category and intents_count of the events of a log from position from on
Collections(events, from) ==
    {<<events[i].category, events[i].intents_count>> : i \in from .. Len(events)}

\* C19: whatever the order in which one register_disposal_intent action checks
\* its touched tags, it emits the same collection events (categories and
\* intents_count), leaves the same disposal intents and the same impact
\* counters; two tags that both reach the threshold each get an event.
C19_TagOrderIrrelevant ==
    [][\A u \in Users, m \in DisposalInputs \ {<< <<>>, <<>> >>}, order \in TagOrders :
          LET appended == Appended(u, m[1], m[2])
              first == Len(BUILDING_STATE.events) + 1
              reaching == {t \in Range(order) : ThresholdReached(
                              Cardinality({i \in DOMAIN appended : t \in appended[i].tags}))}
          IN  register_disposal_intent(u, m[1], m[2], order)
              => /\ \A other \in TagOrders :
                       (Range(other) = Range(order) /\ Len(other) = Len(order))
                       => LET done == CheckTags([store |-> appended,
                                                 events |-> BUILDING_STATE.events,
                                                 imp |-> impactObj[BUILDING_STATE.impact],
                                                 cut |-> FALSE, raised |-> FALSE], other)
                          IN  /\ Collections(done.events, first)
                                    = Collections(BUILDING_STATE'.events, first)
                              /\ done.store = BUILDING_STATE'.disposal_intents
                              /\ done.imp = impactObj'[BUILDING_STATE.impact]
                 /\ {c[1] : c \in Collections(BUILDING_STATE'.events, first)} = reaching
      ]_vars


\* ------------------------------------------------- ownership through the chat
\* the disposal intents of the handlers' store that a step has put there
NewIntents ==
    {BUILDING_STATE'.disposal_intents[i] : i \in DOMAIN BUILDING_STATE'.disposal_intents}
        \ {BUILDING_STATE.disposal_intents[i] : i \in DOMAIN BUILDING_STATE.disposal_intents}

\* C20: every item and every disposal intent created by a register_item or a
\* register_disposal_intent action that run_localloop_brain returned for user u
\* and that post_chat applied for u has owner_id u, whether the model's text
\* gave no owner_id, u, or another resident.
C20_ChatRecordsBelongToUser ==
    [][/\ \A u \in Users, m \in RegisterInputs :
            (reply'.result = "item_registered" /\ post_chat_register_item(u, m[1], m[2], m[3]))
            => \A r \in Range(BUILDING_STATE'.items) \ Range(BUILDING_STATE.items) :
                  itemObj'[r].owner_id = u
       /\ \A u \in Users, m \in ChatDisposalInputs, order \in TagOrders :
            (/\ reply'.result \in {"disposal_registered", "KeyError"}
             /\ Len(order) = Cardinality(Range(order))
             /\ post_chat_register_disposal_intent(u, m[1], m[2], order))
            => /\ \A it \in NewIntents : it.owner_id = u
               /\ reply'.result = "disposal_registered"
                  => /\ Len(reply'.created_items) = Len(m[1]) + Len(m[2])
                     /\ \A i \in DOMAIN reply'.created_items :
                          reply'.created_items[i].owner_id = u
      ]_vars

\* the chat has created an item and a disposal intent, both owned by anna
C20_Witness ==
    /\ \E r \in Range(BUILDING_STATE.items) : itemObj[r].owner_id = "anna"
    /\ \E i \in DOMAIN BUILDING_STATE.disposal_intents :
          BUILDING_STATE.disposal_intents[i].owner_id = "anna"
    /\ reply.result = "disposal_registered"
    /\ calls > 1

\* ------------------------------------------------- the normalizer's claims
\* whether the action is one the ownership guard looks at
InGuard(value) ==
    /\ value.action.kind = "object"
    /\ \/ value.intent \in {"register_item", "register_disposal_intent"}
       \/ value.action.action_type \in {"register_item", "register_disposal_intent"}

\* the owner_id's the guard looks at: metadata.owner_id of a register_item,
\* the entries of metadata.items of a register_disposal_intent
GuardedOwners(value) ==
    (IF value.intent = "register_item" \/ value.action.action_type = "register_item"
     THEN {value.action.owner_id} ELSE {})
    \cup (IF \/ value.intent = "register_disposal_intent"
             \/ value.action.action_type = "register_disposal_intent"
          THEN Range(value.action.items) ELSE {})

\* the notice, whole, somewhere in the words of a reply
HasNotice(words) ==
    \E i \in 1..(Len(words) - 1) :
        words[i] = ownership_notice[1] /\ words[i + 1] = ownership_notice[2]

\* C21: in the ownership guard of run_localloop_brain a missing owner_id is
\* filled with the acting user and a mismatched one is overwritten with it;
\* the returned reply holds the ownership notice if and only if an owner_id
\* differed from the acting user, and the returned action is the corrected
\* action, never null
C21_NoticeIffMismatch ==
    [][run_localloop_brain /\ reply'.result = "ok" /\ InGuard(reply.resp_obj.value)
       => /\ HasNotice(reply'.reply)
             <=> (\E o \in GuardedOwners(reply.resp_obj.value) : o \notin {"", reply.user_id})
          /\ reply'.action.kind = "object"
          /\ GuardedOwners([intent |-> reply'.intent, action |-> reply'.action])
               \subseteq {reply.user_id}]_vars

\* C22: run_localloop_brain returns a record only if the decoded value is an
\* object whose intent and reply are not null and whose action is an object or
\* null; every other decoded value, an action that is an empty string, a zero,
\* false or an empty list included, is rejected with an error; a confidence
\* that float() cannot convert is returned as null
C22_ValidationAfterDecode ==
    [][run_localloop_brain
       => LET value == reply.resp_obj.value
              valid == /\ _safe_json_from_response(reply.resp_obj).kind = "dict"
                       /\ value.intent # Null
                       /\ ~value.reply.null
                       /\ value.action.kind \in {"object", "null"}
          IN  /\ reply'.result = "ok" <=> valid
              /\ reply'.result = "ok" /\ value.confidence \in {"text", "list"}
                 => reply'.confidence = Null]_vars

\* the substring of s from the first ch to where the count of ch and of the
\* bracket that closes it are first equal (none: the empty set)
BalancedFrom(s, ch) ==
    LET Count(c, i, j) == Cardinality({k \in i..j : s[k] = c})
        starts == {i \in 1..Len(s) : s[i] = ch /\ \A k \in 1..(i - 1) : s[k] # ch}
        Ends(i) == {j \in i..Len(s) : Count(ch, i, j) = Count(Closer(ch), i, j)}
    IN  {SubSeq(s, i, Min(Ends(i))) : i \in {k \in starts : Ends(k) # {}}}

\* neither the text nor a balanced substring of the printed response decodes
Undecodable(resp_obj) ==
    /\ json_loads(resp_obj.text) = "error"
    /\ \A ch \in {"{", "["} :
          \A sub \in BalancedFrom(str(resp_obj), ch) : json_loads(sub) = "error"

\* C23: when the text of the model does not decode and neither the balanced
\* substring from the first '{' nor the one from the first '[' decodes, the
\* chat fails with the parse failure that carries the raw text, and nothing
\* is applied to the store
C23_ParseFailureCarriesRawText ==
    [][post_chat /\ Undecodable(reply.resp_obj)
       => /\ reply' = [result |-> "Failed to parse AI response as JSON",
                       raw |-> str(reply.resp_obj)]
          /\ UNCHANGED <<BUILDING_STATE, db_BUILDING_STATE, rebound, itemObj, borObj,
                         impactObj, disk, loaded, shared>>]_vars

\* an object cut before its closing braces was answered, and the chat failed
C23_Witness ==
    /\ calls = 1
    /\ reply = [result |-> "Failed to parse AI response as JSON", raw |-> <<"{", "{">>]

\* ------------------------------------------------- the logs and the counters
IsPrefix(s, t) == Len(s) <= Len(t) /\ SubSeq(t, 1, Len(s)) = s

UniqueIds(records) ==
    \A i \in DOMAIN records : \A j \in DOMAIN records : records[i].id = records[j].id => i = j

\* C24: the event log is append-only: every call leaves the events that were
\* in the log where and as they were, in the handlers' dict and in db.json,
\* adds new events at the end only, and no two events of the log share an id
C24_EventLogAppendOnly ==
    [][/\ IsPrefix(BUILDING_STATE.events, BUILDING_STATE'.events)
       /\ IsPrefix(disk.events, disk'.events)
       /\ UniqueIds(BUILDING_STATE'.events)
       /\ UniqueIds(disk'.events)]_vars

\* two collections were logged, the second after the first
C24_Witness ==
    /\ Len(BUILDING_STATE.events) = 2
    /\ BUILDING_STATE.events[1].id # BUILDING_STATE.events[2].id

\* a counter of the impact dict of db.json; a counter that is absent counts 0
DiskCounter(file, key) == IF key \in DOMAIN file.impact THEN file.impact[key] ELSE 0

ValidBefore(b) ==
    BorrowKept(borObj[b],
               {itemObj[r].id : r \in Range(BUILDING_STATE.items)},
               {r \in Range(BUILDING_STATE.residents) : r # ""})

\* C26 as stated: no call removes a borrowing from the store, unless the
\* borrowing is referentially invalid (no id, item missing, lender or borrower
\* not a resident, status outside the enum)
C26_OnlyInvalidBorrowingsRemoved ==
    [][\A b \in Range(BUILDING_STATE.borrowings) :
          b \in Range(BUILDING_STATE'.borrowings) \/ ~ValidBefore(b)]_vars

\* C26 (amended): a borrowing leaves the store the handlers serve only in a
\* delete_item that succeeds, which removes the borrowings of the item it
\* deletes; no other call removes one, and the borrowings that stay keep
\* their order
C26_BorrowingsLeaveWithTheirItem ==
    [][/\ \A b \in Range(BUILDING_STATE.borrowings) :
             \/ b \in Range(BUILDING_STATE'.borrowings)
             \/ /\ reply'.result = "ok"
                /\ \E u \in Users : delete_item(borObj[b].item_id, u)
       /\ Len(BUILDING_STATE'.borrowings) <= Len(BUILDING_STATE.borrowings)
          => BUILDING_STATE'.borrowings
               = SelectSeq(BUILDING_STATE.borrowings,
                           LAMBDA b : b \in Range(BUILDING_STATE'.borrowings))]_vars

\* an item was deleted, and the borrowing of it went with it
C26_Witness ==
    /\ reply = [result |-> "ok", id |-> 1]
    /\ BUILDING_STATE.items = <<>>
    /\ BUILDING_STATE.borrowings = <<>>
    /\ \E b \in DOMAIN borObj : borObj[b].item_id = 1

\* ------------------------------------------------- reconciliation of any file
\* C27: _cleanup_state never fails and keeps exactly the valid records of its
\* input, in their order: an item if and only if it has an id and its owner_id
\* is the id of a resident, a status outside the enum of items read as
\* 'available'; a borrowing if and only if it has an id, its item_id is the id
\* of an item that is kept, its lender_id and borrower_id are ids of residents
\* and its status is in the enum of borrowings
C27_KeepsExactlyValidRecords ==
    [][Load =>
         LET resident_ids == {r \in Range(disk.residents) : r # ""}
             kept_items == SelectSeq(disk.items, LAMBDA it :
                               it.id # 0 /\ it.owner_id \in resident_ids)
             kept_ids == {kept_items[i].id : i \in DOMAIN kept_items}
             kept_borrowings == SelectSeq(disk.borrowings, LAMBDA b :
                                    /\ b.id # 0
                                    /\ b.item_id \in kept_ids
                                    /\ b.lender_id \in resident_ids
                                    /\ b.borrower_id \in resident_ids
                                    /\ b.status \in _BORROW_STATUSES)
             items == [i \in DOMAIN BUILDING_STATE'.items |-> itemObj'[BUILDING_STATE'.items[i]]]
             borrowings == [i \in DOMAIN BUILDING_STATE'.borrowings |->
                               borObj'[BUILDING_STATE'.borrowings[i]]]
             StatusesOf(iid) == {kept_borrowings[i].status :
                                   i \in {j \in DOMAIN kept_borrowings :
                                             kept_borrowings[j].item_id = iid}}
         IN  /\ loaded'
             /\ borrowings = kept_borrowings
             /\ Len(items) = Len(kept_items)
             /\ \A i \in DOMAIN items :
                   /\ items[i].id = kept_items[i].id
                   /\ items[i].owner_id = kept_items[i].owner_id
                   /\ kept_items[i].status \notin _ITEM_STATUSES
                      => items[i].status = DerivedStatus("available", StatusesOf(items[i].id))]_vars

\* ------------------------------------------------- C28
\* the worker has appended its borrowing and has not returned yet
HasAppended(w) == reply[w].at \in {"status", "persist"}

\* C28: calls for the same item that are in flight together are serialized: at
\* most one of them creates a borrowing, and the borrowings two calls create
\* never have the same id.
C28_InFlightCallsSerialized ==
    \A v, w \in Workers :
        v # w /\ Running(v) /\ Running(w) /\ reply[v].item_id = reply[w].item_id
            => /\ ~(HasAppended(v) /\ HasAppended(w))
               /\ \A a, b \in Range(BUILDING_STATE.borrowings) :
                      a # b /\ borObj[a].item_id = reply[v].item_id /\ borObj[b].item_id = reply[v].item_id
                          /\ borObj[a].status = "waiting_for_confirm" /\ borObj[b].status = "waiting_for_confirm"
                          => borObj[a].id # borObj[b].id

\* ------------------------------------------------- C29
\* a borrowing of the item is active or pending in the handlers' store
Engaged(st, heap, item_id) ==
    BorrowStatuses(st, heap, item_id) \cap {"active", "waiting_for_confirm"} # {}

\* the cases in which an update is stated to be rejected
UpdateForbidden(item, item_id, user_id, status) ==
    \/ itemObj[item].owner_id # user_id
    \/ itemObj[item].status = "borrowed"
    \/ status = "available" /\ Engaged(BUILDING_STATE, Heap, item_id)

\* C29: update_item is rejected when the caller is not the owner, when the
\* item is 'borrowed', or when 'available' is asked for while a borrowing of the
\* item is active or waiting_for_confirm; so no update leaves an item
\* 'available' while it has an active or pending borrowing.
C29_UpdateGuards ==
    [][\A i \in ItemIdInputs, u \in Users, s \in UpdateStatuses :
          LET item == _find_item(BUILDING_STATE, Heap, i)
          IN  item # 0 /\ update_item(i, u, Null, Null, Null, s)
              => /\ UpdateForbidden(item, i, u, s)
                    => /\ reply'.result \in {"403", "400"}
                       /\ UNCHANGED <<BUILDING_STATE, db_BUILDING_STATE, itemObj, borObj,
                                      impactObj, disk>>
                 /\ reply'.result = "ok"
                    => ~(/\ itemObj'[item].status = "available"
                         /\ Engaged(BUILDING_STATE', HeapAfter, i))
      ]_vars

\* ------------------------------------------------- C30
\* the item is lent out: a borrowing of it is active or return_requested, or
\* its status is 'borrowed'
LentOut(item, item_id) ==
    \/ BorrowStatuses(BUILDING_STATE, Heap, item_id) \cap {"active", "return_requested"} # {}
    \/ itemObj[item].status = "borrowed"

\* C30: delete_item is rejected when the caller is not the owner, when the
\* item is 'borrowed', or when a borrowing of it is active or
\* waiting_for_confirm; in every state in which it succeeds the item is not
\* lent out.
C30_DeleteGuards ==
    [][\A i \in ItemIdInputs, u \in Users :
          LET item == _find_item(BUILDING_STATE, Heap, i)
          IN  item # 0 /\ delete_item(i, u)
              => /\ \/ itemObj[item].owner_id # u
                    \/ itemObj[item].status = "borrowed"
                    \/ Engaged(BUILDING_STATE, Heap, i)
                    => reply'.result \in {"403", "400"}
                 /\ reply'.result = "ok" => ~LentOut(item, i)
      ]_vars

\* ------------------------------------------------- C31
\* the item a step has appended to the handlers' store, 0 if none
CreatedItem ==
    IF Len(BUILDING_STATE'.items) = Len(BUILDING_STATE.items) + 1
    THEN BUILDING_STATE'.items[Len(BUILDING_STATE'.items)]
    ELSE 0

\* the record is one that reconciliation keeps in the handlers' store as the
\* step leaves it
KeptItem(r) ==
    r # 0 /\ ItemKept(itemObj'[r], Range(BUILDING_STATE'.residents))

KeptBorrowing(b) ==
    /\ b # 0
    /\ BorrowKept(borObj'[b],
                  {itemObj'[r].id : r \in {x \in Range(BUILDING_STATE'.items) : KeptItem(x)}},
                  Range(BUILDING_STATE'.residents))

\* C31: every successful mutation is in the snapshot that the closing persist
\* writes, whatever ran before: the new borrowing after a request or a
\* create_borrow, the new item after a register_item (each a record that
\* reconciliation keeps), and exactly the disposal intents that remain in the
\* store after a register_disposal_intent.
C31_SnapshotHoldsTheMutation ==
    [][/\ reply'.result \in {"ok", "borrow_waiting_confirmation"} /\ KeptBorrowing(Created)
          => borObj'[Created] \in Range(disk'.borrowings)
       /\ reply'.result = "item_registered" /\ KeptItem(CreatedItem)
          => itemObj'[CreatedItem] \in Range(disk'.items)
       /\ reply'.result = "disposal_registered"
          => disk'.disposal_intents = BUILDING_STATE'.disposal_intents
      ]_vars

\* ------------------------------------------------- C32
\* C32: in every reachable state each item has at most one borrowing that is
\* active or waiting_for_confirm.
C32_AtMostOneOpenBorrowingPerItem ==
    \A a, b \in Range(BUILDING_STATE.borrowings) :
        /\ borObj[a].item_id = borObj[b].item_id
        /\ borObj[a].status \in {"active", "waiting_for_confirm"}
        /\ borObj[b].status \in {"active", "waiting_for_confirm"}
        => a = b

\* ------------------------------------------------- C33
\* db.json files with residents (one without an id), events, disposal intents
\* (one of an owner who is no resident) and counters, next to items and
\* borrowings that reconciliation keeps or drops
PassResidents == {<<>>, <<"peter", "anna">>, <<"anna", "peter">>, <<"peter", "">>}

PassEvents ==
    {<<>>, <<Event(1, "books", 2, 18, 6)>>,
     <<Event(2, "toys", 2, 18, 6), Event(1, "books", 3, 27, 9)>>}

PassIntents ==
    {<<>>, <<Intent(1, {"books"}, "ghost")>>,
     <<Intent(2, {"books", "toys"}, "peter"), Intent(1, {"books"}, "ghost")>>}

PassImpacts ==
    {EmptyDict, ZeroImpact, [ZeroImpact EXCEPT !["borrows_count"] = 1, !["co2_saved_kg"] = 2]}

PassItems == {<<>>, <<Item(1, "peter", "available")>>, <<Item(1, "ghost", "requested")>>}

PassBorrowings == {<<>>, <<Borrowing(1, 1, "peter", "anna", "active")>>}

PassFiles ==
    {[residents |-> r, items |-> i, borrowings |-> b, impact |-> c, events |-> e,
      disposal_intents |-> d] :
        r \in PassResidents, i \in PassItems, b \in PassBorrowings, c \in PassImpacts,
        e \in PassEvents, d \in PassIntents}

\* before the import: db.json = raw on disk, no store yet
InitPass ==
    \E raw \in PassFiles :
        /\ BUILDING_STATE = [residents |-> <<>>, items |-> <<>>, borrowings |-> <<>>, impact |-> 1,
                             events |-> <<>>, disposal_intents |-> <<>>]
        /\ db_BUILDING_STATE = BUILDING_STATE
        /\ rebound = FALSE
        /\ itemObj = <<>>
        /\ borObj = <<>>
        /\ impactObj = <<EmptyDict, EmptyDict>>
        /\ disk = raw
        /\ loaded = FALSE
        /\ reply = [result |-> "", id |-> 0]
        /\ calls = 0
        /\ shared = LIST_KEYS

SpecPass == InitPass /\ [][NextReconcile]_vars

\* the collections reconciliation does not filter are the same in a and b
SamePassed(a, b) ==
    /\ a.residents = b.residents
    /\ a.events = b.events
    /\ a.disposal_intents = b.disposal_intents
    /\ a.impact = b.impact

\* C33: _cleanup_state leaves residents, events, disposal intents and impact
\* counters as they are in its input, whatever items and borrowings it drops:
\* the store the import builds and every file persist writes have them as the
\* file before had them.
C33_PassThrough ==
    [][/\ SamePassed(disk, disk')
       /\ loaded' => /\ SamePassed(disk, Snapshot(BUILDING_STATE', HeapAfter))
                     /\ SamePassed(disk', Snapshot(db_BUILDING_STATE', HeapAfter))
      ]_vars

\* a file with a disposal intent of a non-resident and an item that was dropped
\* has been loaded and written back
C33_Witness ==
    /\ loaded
    /\ calls > 0
    /\ disk.items = <<>>
    /\ BUILDING_STATE.items = <<>>
    /\ \E i \in DOMAIN disk.disposal_intents :
          disk.disposal_intents[i].owner_id \notin Range(disk.residents)
    /\ disk.events # <<>>
    /\ disk.impact # EmptyDict
    /\ "" \in Range(disk.residents)

\* ------------------------------------------------- C34
\* metadata of register_disposal_intent actions, <<items, categories>>: one
\* category, two categories, one category twice, an item with two tags
MixInputs ==
    {<< <<>>, <<"books">> >>,
     << <<>>, <<"toys">> >>,
     << <<>>, <<"books", "toys">> >>,
     << <<>>, <<"toys", "toys">> >>,
     << <<[tags |-> {"books", "toys"}, owner_id |-> ""]>>, <<>> >>}

\* register_disposal_intent actions alone, on a store without disposal intents
NextDisposal ==
    \E u \in Users, m \in MixInputs, order \in TagOrders :
        register_disposal_intent(u, m[1], m[2], order)

SpecDisposal == Init /\ [][NextDisposal]_vars

\* the tags that DISPOSAL_INTENT_THRESHOLD or more entries of the list carry
Crowded(list) ==
    {t \in Tags : ThresholdReached(Cardinality({i \in DOMAIN list : t \in list[i].tags}))}

\* C34: after every completed register_disposal_intent action no tag is
\* carried by DISPOSAL_INTENT_THRESHOLD or more disposal intents of the store.
C34_NoCrowdedTag ==
    reply.result = "disposal_registered" => Crowded(BUILDING_STATE.disposal_intents) = {}

\* ------------------------------------------------- C35
\* no two records of the list have the same id
DistinctIds(list) == \A i, j \in DOMAIN list : list[i].id = list[j].id => i = j

\* C35: generated ids are unique: no two items, no two borrowings and no two
\* disposal intents of the store share an id.
C35_GeneratedIdsUnique ==
    LET s == Snapshot(BUILDING_STATE, Heap)
    IN  /\ DistinctIds(s.items)
        /\ DistinctIds(s.borrowings)
        /\ DistinctIds(s.disposal_intents)

\* ------------------------------------------------- C36
\* an item with the fields a PATCH can write
NamedItem(id, owner_id, status) ==
    [id |-> id, owner_id |-> owner_id, status |-> status, name |-> "drill",
     description |-> "", tags |-> <<>>]

\* db.json files with one item of peter, alone or with a borrowing of it
UpdateFiles ==
    {[residents |-> SeedResidents, items |-> <<NamedItem(1, "peter", s)>>, borrowings |-> b,
      impact |-> ZeroImpact, events |-> <<>>, disposal_intents |-> <<>>] :
        s \in {"available", "unavailable", "archived"},
        b \in {<<>>} \cup {<<Borrowing(1, 1, "peter", "anna", t)>> :
                              t \in {"waiting_for_confirm", "active", "cancelled"}}}

\* the fields of a PATCH body: name, description, tags (Null: not provided)
NameInputs == {Null, " ", " saw"}
DescriptionInputs == {Null, "sharp"}
TagsInputs == {Null, <<"tools">>}

InitUpdate ==
    \E raw \in UpdateFiles :
        LET m == Import(raw)
        IN  /\ BUILDING_STATE = m.BUILDING_STATE
            /\ db_BUILDING_STATE = m.BUILDING_STATE
            /\ rebound = FALSE
            /\ itemObj = m.itemObj
            /\ borObj = m.borObj
            /\ impactObj = m.impactObj
            /\ disk = raw
            /\ loaded = TRUE
            /\ reply = Booted
            /\ calls = 0
            /\ shared = LIST_KEYS

NextUpdate ==
    \E i \in ItemIdInputs, u \in Users, n \in NameInputs, d \in DescriptionInputs,
       t \in TagsInputs, s \in UpdateStatuses :
        update_item(i, u, n, d, t, s)

SpecUpdate == InitUpdate /\ [][NextUpdate]_vars

\* C36: a rejected update_item leaves the item unchanged: when the call fails,
\* the name, description, tags and status of every item are as before.
C36_RejectedUpdateChangesNothing ==
    [][reply'.result \in {"404", "403", "400"} => itemObj' = itemObj]_vars

============================================================================
